---- MODULE Spec2Model ----
(***************************************************************************)
(* A model of the document-classifier front end: the analytics dashboard   *)
(* (StatisticalAnalysis.tsx), the document list (DocumentList.tsx), the    *)
(* upload form (FileUpload) and the API/error services (api.ts).           *)
(*                                                                         *)
(* JavaScript numbers that come out of a division are kept as exact        *)
(* fractions [num, den]; den = 0 stands for the result of a division by    *)
(* zero (0/0 is NaN, x/0 is Infinity).  Confidences are whole numbers of   *)
(* an arbitrary unit, sizes are bytes.  A category_prediction mapping is   *)
(* the sequence of its entries in the object's key order, which is the     *)
(* order Object.entries walks.  A text is the sequence of its tokens as    *)
(* split(/\s+/) separates them.                                            *)
(***************************************************************************)
EXTENDS Integers, Sequences, FiniteSets, TLC

\* ------------------------------------------------------------------------
\* Bounds of the model
\* ------------------------------------------------------------------------
MaxDocs == 2
MaxLoads == 2
MaxServerChanges == 1
MaxListClicks == 2
MaxUploads == 1
MaxSelected == 2
MaxSubmits == 2
\* the largest retries withErrorHandling is called with
MaxRetries == 2
\* the most chunks of a classified text
MaxChunks == 2
\* the uploads the ingestion core receives
MaxIngests == 3
\* the changes of the route id of the detail view
MaxNavigations == 2

\* ------------------------------------------------------------------------
\* Numbers
\* ------------------------------------------------------------------------
Rat(n, d) == [num |-> n, den |-> d]
Zero == Rat(0, 1)
JsDiv(a, b) == Rat(a, b)
IsNaN(q) == q.den = 0 /\ q.num = 0
IsFinite(q) == q.den # 0
IsZero(q) == q.den # 0 /\ q.num = 0
RatEq(p, q) == /\ IsFinite(p) = IsFinite(q)
               /\ IsNaN(p) = IsNaN(q)
               /\ p.num * q.den = q.num * p.den

RECURSIVE SumSeq(_)
SumSeq(s) == IF s = <<>> THEN 0 ELSE Head(s) + SumSeq(Tail(s))

\* ------------------------------------------------------------------------
\* Categories (StatisticalAnalysis.tsx 41-48)
\* ------------------------------------------------------------------------
VALID_CATEGORIES ==
    << "Technical Documentation", "Business Proposal", "Legal Document",
       "Academic Paper", "General Article", "Other" >>

ValidSet == { VALID_CATEGORIES[i] : i \in 1..Len(VALID_CATEGORIES) }
IsValid(category) == category \in ValidSet

\* ------------------------------------------------------------------------
\* File names: the stem and the final extension that /\.[^/.]+$/ matches
\* ------------------------------------------------------------------------
File(stem, ext) == [stem |-> stem, ext |-> ext]
NoName == File("", "")
Unnamed == File("Unnamed document", "")
\* filename.replace(/\.[^/.]+$/, "")
StripExt(f) == f.stem

\* ------------------------------------------------------------------------
\* Documents (api.ts 5-14) and the corpora the server may hold
\* ------------------------------------------------------------------------
Entry(category, confidence) == [category |-> category, confidence |-> confidence]

Doc(id, filename, size, content, hasPrediction, prediction) ==
    [ id |-> id, filename |-> filename, size |-> size, content |-> content,
      hasPrediction |-> hasPrediction, category_prediction |-> prediction ]

\* The stored documents the model draws its corpora from.  Between them they
\* have: a tie listed against declaration order (1), a clear winner that is
\* neither of the first two categories (2), no classification at all and a
\* text without a word that is counted (3), an
\* empty classification and no name, size or content (4), a key outside the
\* fixed list carrying the highest confidence (5), all-zero confidences (6).
DocPool ==
    << Doc(1, File("contract", "pdf"), 2048,
           << "The", "Contract", ",", "contract", "law", "42" >>, TRUE,
           << Entry("Business Proposal", 2), Entry("Technical Documentation", 2) >>),
       Doc(2, File("notes", "txt"), 1024,
           << "Legal", "terms", "terms", "of" >>, TRUE,
           << Entry("Legal Document", 3), Entry("Technical Documentation", 1) >>),
       Doc(3, File("memo", "docx"), 512, << "of", "42" >>, FALSE, << >>),
       Doc(4, NoName, 0, << >>, TRUE, << >>),
       Doc(5, File("contract", "txt"), 3072, << "Other", "budget" >>, TRUE,
           << Entry("Memo", 3), Entry("Technical Documentation", 1) >>),
       Doc(6, File("zero", "txt"), 1024, << >>, TRUE,
           << Entry("Technical Documentation", 0), Entry("Business Proposal", 0) >>) >>

PoolIds == 1..Len(DocPool)

RECURSIVE PickDocs(_, _)
\* the pool's documents with an id in ids, in id order
PickDocs(ids, k) ==
    IF k > Len(DocPool) THEN <<>>
    ELSE (IF k \in ids THEN << DocPool[k] >> ELSE <<>>) \o PickDocs(ids, k + 1)

Corpora == { PickDocs(ids, 1) : ids \in { x \in SUBSET PoolIds : Cardinality(x) <= MaxDocs } }

\* ------------------------------------------------------------------------
\* Strings: the JavaScript string primitives over the tokens of the model
\* ------------------------------------------------------------------------
\* String.prototype.toLowerCase
ToLowerCase(w) ==
    CASE w = "The" -> "the"
      [] w = "Contract" -> "contract"
      [] w = "Legal" -> "legal"
      [] w = "Other" -> "other"
      [] w = "THE" -> "the"
      [] w = "CONTRACT" -> "contract"
      [] OTHER -> w

\* String.prototype.length
StrLen(w) ==
    CASE w \in { "," } -> 1
      [] w \in { "of", "42" } -> 2
      [] w \in { "The", "the", "law" } -> 3
      [] w \in { "Legal", "legal", "terms", "Other", "other" } -> 5
      [] w \in { "budget" } -> 6
      [] w \in { "Contract", "contract" } -> 8
      [] OTHER -> 4

\* /^\d+$/.test(w)
IsNumeric(w) == w \in { "42" }
\* a token of characters outside [\w\s], which /[^\w\s]/g turns into blanks
IsPunctuation(w) == w \in { "," }

\* the lower-cased words a category's lower-cased name includes
\* (category.toLowerCase().includes(word)), over the tokens of the model
NameIncludes(category, word) ==
    \/ category = "Legal Document" /\ word \in { "legal" }
    \/ category = "Other" /\ word \in { "other", "the" }

\* text.length of a text: its tokens and one blank between two tokens
RECURSIVE TextLength(_)
TextLength(text) ==
    IF text = <<>> THEN 0
    ELSE StrLen(Head(text)) + (IF Len(text) > 1 THEN 1 ELSE 0) + TextLength(Tail(text))

\* ------------------------------------------------------------------------
\* Top category, three ways
\* ------------------------------------------------------------------------
\* doc.category_prediction[cat] || 0
Lookup(prediction, cat) ==
    IF \E i \in 1..Len(prediction) : prediction[i].category = cat
    THEN (CHOOSE e \in { prediction[i] : i \in 1..Len(prediction) } : e.category = cat).confidence
    ELSE 0

\* whether entry e replaces the running top (confidence > topConfidence)
Beats(confidence, topConfidence) == confidence > topConfidence

RECURSIVE TopLoop(_, _, _, _)
\* The forEach over Object.entries(prediction) from entry k on; top is the
\* running [category, confidence]; validOnly restricts it to VALID_CATEGORIES.
TopLoop(prediction, k, top, validOnly) ==
    IF k > Len(prediction) THEN top
    ELSE LET e == prediction[k]
             take == (validOnly => IsValid(e.category)) /\ Beats(e.confidence, top.confidence)
         IN  TopLoop(prediction, k + 1, IF take THEN e ELSE top, validOnly)

\* fetchData: let topCategory = 'Other'; only valid categories compete
StatsTop(prediction) == TopLoop(prediction, 1, Entry("Other", 0), TRUE)
\* fetchTargetsAndCalculateAccuracy: let predictedCategory = 'Other'; every key competes
PredictedCategory(prediction) == TopLoop(prediction, 1, Entry("Other", 0), FALSE).category
\* DocumentList row: let topCategory = 'Unclassified'; every key competes
ListTop(doc) ==
    IF doc.hasPrediction
    THEN TopLoop(doc.category_prediction, 1, Entry("Unclassified", 0), FALSE)
    ELSE Entry("Unclassified", 0)

\* doc.category_prediction && Object.keys(doc.category_prediction).length > 0
HasClassification(doc) == doc.hasPrediction /\ Len(doc.category_prediction) > 0

\* ------------------------------------------------------------------------
\* performPCA (StatisticalAnalysis.tsx 61-100)
\* ------------------------------------------------------------------------
ColumnSum(data, j) == SumSeq([ i \in 1..Len(data) |-> data[i][j] ])

\* a slip in the centring: the mean is never subtracted
CenteredWithoutMean(data, k, j) == Rat(Len(data) * data[k][j], Len(data))

\* centeredData[k][j] = data[k][j] - mean[j], as a fraction over data.length
Centered(data, k, j) == Rat(Len(data) * data[k][j] - ColumnSum(data, j), Len(data))

\* covMatrix[i][j] = sum / (centeredData.length - 1); the numerators below are
\* over data.length squared
Covariance(data, i, j) ==
    JsDiv(SumSeq([ k \in 1..Len(data) |-> Centered(data, k, i).num * Centered(data, k, j).num ]),
          Len(data) * Len(data) * (Len(data) - 1))

\* a slip in pc2's index: both axes are the first column
PC2SameAxis(dimensions) == [ i \in 1..dimensions |-> IF i = 1 THEN 1 ELSE 0 ]

\* const pc1 = ...map((_, i) => i === 0 ? 1 : 0), pc2 = ...(i === 1 ? 1 : 0)
PC1(dimensions) == [ i \in 1..dimensions |-> IF i = 1 THEN 1 ELSE 0 ]
PC2(dimensions) == [ i \in 1..dimensions |-> IF i = 2 THEN 1 ELSE 0 ]

\* point.reduce((sum, val, i) => sum + pc[i] * val, 0)
Project(data, k, pc) ==
    Rat(SumSeq([ i \in 1..Len(pc) |-> pc[i] * Centered(data, k, i).num ]), Len(data))

performPCA(data) ==
    LET dimensions == Len(data[1])
    IN  [ k \in 1..Len(data) |->
            [ x |-> Project(data, k, PC1(dimensions)),
              y |-> Project(data, k, PC2(dimensions)) ] ]

\* ------------------------------------------------------------------------
\* The statistics of fetchData (StatisticalAnalysis.tsx 555-659)
\* ------------------------------------------------------------------------
ZeroPerCategory == [ c \in ValidSet |-> 0 ]

\* counts[c] = (counts[c] || 0) + n
Bump(f, c, n) == [ f EXCEPT ![c] = @ + n ]

RECURSIVE ScoreLoop(_, _, _)
\* totalScores and categoryOccurrences after the entries of one document
ScoreLoop(prediction, k, acc) ==
    IF k > Len(prediction) THEN acc
    ELSE LET e == prediction[k]
         IN  ScoreLoop(prediction, k + 1,
                 IF IsValid(e.category)
                 THEN [ acc EXCEPT !.totalScores = Bump(@, e.category, e.confidence),
                                   !.categoryOccurrences = Bump(@, e.category, 1) ]
                 ELSE acc)

\* VALID_CATEGORIES.map(cat => doc.category_prediction[cat] || 0)
FeatureVector(doc) ==
    [ j \in 1..Len(VALID_CATEGORIES) |-> Lookup(doc.category_prediction, VALID_CATEGORIES[j]) ]

\* doc.filename || 'Unnamed document'
NameOrUnnamed(doc) == IF doc.filename = NoName THEN Unnamed ELSE doc.filename

\* one pass of data.forEach: a document with a classification
Classified(acc, doc) ==
    LET topCategory == StatsTop(doc.category_prediction).category
        scored == ScoreLoop(doc.category_prediction, 1, acc)
    IN  [ scored EXCEPT
            !.featureVectors = Append(@, FeatureVector(doc)),
            !.docCategories = Append(@, topCategory),
            !.docFilenames = Append(@, NameOrUnnamed(doc)),
            !.counts = Bump(@, topCategory, 1),
            !.totalSizes = Bump(@, topCategory, doc.size),
            !.totalLengths = Bump(@, topCategory, TextLength(doc.content)) ]

\* the else branch of lines 619-637 left out: the document is skipped
UnclassifiedSkipped(acc, doc) == acc

\* one pass of data.forEach: a document without a classification
Unclassified(acc, doc) ==
    [ acc EXCEPT
        !.counts = Bump(@, "Other", 1),
        !.featureVectors = Append(@, [ j \in 1..Len(VALID_CATEGORIES) |-> 0 ]),
        !.docCategories = Append(@, "Other"),
        !.docFilenames = Append(@, NameOrUnnamed(doc)),
        !.totalSizes = Bump(@, "Other", doc.size),
        !.totalLengths = Bump(@, "Other", TextLength(doc.content)) ]

RECURSIVE Tally(_, _, _)
\* data.forEach from document k on
Tally(data, k, acc) ==
    IF k > Len(data) THEN acc
    ELSE Tally(data, k + 1,
               IF HasClassification(data[k]) THEN Classified(acc, data[k])
               ELSE Unclassified(acc, data[k]))

EmptyTally ==
    [ counts |-> ZeroPerCategory, totalScores |-> ZeroPerCategory,
      categoryOccurrences |-> ZeroPerCategory, totalSizes |-> ZeroPerCategory,
      totalLengths |-> ZeroPerCategory,
      featureVectors |-> <<>>, docCategories |-> <<>>, docFilenames |-> <<>> ]

\* the averages without their guards against a zero divisor
AvgScoreUnguarded(t, category) ==
    JsDiv(t.totalScores[category], t.categoryOccurrences[category])
AvgSizeUnguarded(t, category) ==
    JsDiv(t.totalSizes[category], 1024 * t.counts[category])

\* avgScores[category]
AvgScore(t, category) ==
    IF t.categoryOccurrences[category] > 0
    THEN JsDiv(t.totalScores[category], t.categoryOccurrences[category])
    ELSE Zero

\* avgSizes[category]: the totals are bytes, the code adds doc.size / 1024
AvgSize(t, category) ==
    IF t.counts[category] > 0
    THEN JsDiv(t.totalSizes[category], 1024 * t.counts[category])
    ELSE Zero

\* avgLengths[category]
AvgLength(t, category) ==
    IF t.counts[category] > 0
    THEN JsDiv(t.totalLengths[category], t.counts[category])
    ELSE Zero

\* ------------------------------------------------------------------------
\* Reference labels and accuracy (StatisticalAnalysis.tsx 396-474)
\* ------------------------------------------------------------------------
Target(filename, category) == [filename |-> filename, category |-> category]

\* the index of the first target whose name matches the document's when both
\* extensions are removed, 0 when none does (Array.prototype.find)
FindTarget(targets, doc) ==
    LET hits == { i \in 1..Len(targets) : StripExt(targets[i].filename) = StripExt(doc.filename) }
    IN  IF hits = {} THEN 0 ELSE CHOOSE i \in hits : \A j \in hits : i <= j

\* the total kept per predicted category instead of per reference label
CountedUnderPredicted(label, predicted) == predicted

\* the category whose total a labelled document is counted in:
\* categoryStats[matchingTarget.category].total++
CountedUnder(label, predicted) == label

RECURSIVE AccuracyLoop(_, _, _, _)
\* docs.forEach from document k on; acc = [correctPredictions, totalLabeledDocs,
\* correct, total] with correct and total per valid category
AccuracyLoop(docs, targets, k, acc) ==
    IF k > Len(docs) THEN acc
    ELSE LET doc == docs[k]
             t == FindTarget(targets, doc)
             label == targets[t].category
             predicted == PredictedCategory(doc.category_prediction)
             under == CountedUnder(label, predicted)
             hit == predicted = label
         IN  IF doc.filename = NoName \/ ~doc.hasPrediction \/ t = 0
             THEN AccuracyLoop(docs, targets, k + 1, acc)
             ELSE AccuracyLoop(docs, targets, k + 1,
                    [ totalLabeledDocs |-> acc.totalLabeledDocs + 1,
                      correctPredictions |-> acc.correctPredictions + (IF hit THEN 1 ELSE 0),
                      total |-> IF IsValid(under) THEN Bump(acc.total, under, 1) ELSE acc.total,
                      correct |-> IF hit /\ IsValid(under)
                                  THEN Bump(acc.correct, under, 1) ELSE acc.correct ])

AccuracyOf(docs, targets) ==
    AccuracyLoop(docs, targets, 1,
        [ totalLabeledDocs |-> 0, correctPredictions |-> 0,
          total |-> ZeroPerCategory, correct |-> ZeroPerCategory ])

\* categoryStats[category] once the percentages are filled in
CategoryStats(a) ==
    [ c \in ValidSet |->
        [ correct |-> a.correct[c], total |-> a.total[c],
          percentage |-> IF a.total[c] > 0 THEN JsDiv(a.correct[c] * 100, a.total[c]) ELSE Zero ] ]

\* ------------------------------------------------------------------------
\* Word clouds (StatisticalAnalysis.tsx 179-347)
\* ------------------------------------------------------------------------
STOP_WORDS ==
    { "a", "an", "the", "and", "but", "or", "for", "nor", "on", "at", "to", "by",
      "from", "of", "in", "this", "that", "these", "those", "with", "as", "is",
      "are", "was", "were", "be", "been", "being", "have", "has", "had", "do",
      "does", "did", "shall", "will", "should", "would", "may", "might", "must",
      "can", "could", "i", "you", "he", "she", "it", "we", "they", "their", "its",
      "our", "your", "my", "his", "her", "who", "what", "where", "which", "when",
      "why", "how", "all", "any", "both", "each", "not", "only", "very", "more",
      "most", "some", "such", "no", "too", "then", "than", "also", "if",
      "so", "just", "about", "upon", "through", "before", "after", "above", "below",
      "over", "under", "again", "once" }

\* words.filter(...): the test a lower-cased word passes
KeepWord(word) == StrLen(word) > 2 /\ word \notin STOP_WORDS /\ ~IsNumeric(word)

RECURSIVE preprocessText(_)
preprocessText(text) ==
    IF text = <<>> THEN <<>>
    ELSE LET word == ToLowerCase(Head(text))
         IN  (IF ~IsPunctuation(Head(text)) /\ KeepWord(word) THEN << word >> ELSE <<>>)
                \o preprocessText(Tail(text))

commonWords ==
    [ c \in ValidSet |->
        CASE c = "Technical Documentation" ->
               << "code", "function", "class", "method", "library", "api", "interface",
                  "system", "software", "design", "implementation", "documentation",
                  "reference", "guide" >>
          [] c = "Business Proposal" ->
               << "business", "proposal", "project", "client", "budget", "timeline",
                  "deliverable", "service", "opportunity", "strategy", "partnership",
                  "growth", "market", "solution" >>
          [] c = "Legal Document" ->
               << "legal", "agreement", "contract", "party", "terms", "conditions",
                  "clause", "obligation", "rights", "compliance", "regulation",
                  "jurisdiction", "enforcement", "liability" >>
          [] c = "Academic Paper" ->
               << "research", "study", "analysis", "data", "method", "result",
                  "conclusion", "literature", "hypothesis", "theory", "experiment",
                  "finding", "publication", "reference" >>
          [] c = "General Article" ->
               << "article", "information", "topic", "reader", "section", "point",
                  "example", "author", "description", "overview", "summary",
                  "introduction", "conclusion", "perspective" >>
          [] OTHER ->
               << "document", "content", "information", "section", "page", "text",
                  "topic", "review", "description", "analysis", "overview", "summary",
                  "introduction", "conclusion" >> ]

Word(text, value) == [text |-> text, value |-> value]

\* One placeholder cloud; draw stands for Math.floor(Math.random() * 60), which
\* the model takes once per call rather than once per word.
PlaceholderWords(category, draw) ==
    LET categoryWords == IF IsValid(category) THEN commonWords[category] ELSE commonWords["Other"]
    IN  [ i \in 1..Len(categoryWords) |-> Word(categoryWords[i], draw + 40) ]

generatePlaceholderWordClouds(categories, draw) ==
    [ c \in categories |-> PlaceholderWords(c, draw) ]

\* doc.content && doc.content.length > 0
HasContent(doc) == doc.content # <<>>

\* a document that has a name and a reference label
IsLabelled(doc, targets) == doc.filename # NoName /\ FindTarget(targets, doc) # 0
LabelOf(doc, targets) == targets[FindTarget(targets, doc)].category

\* categoryDocs[category]: the labelled documents of one label, in order
InCategory(docs, targets, category) ==
    SelectSeq(docs, LAMBDA d : IsLabelled(d, targets) /\ LabelOf(d, targets) = category)

\* Object.keys(categoryDocs)
LabelsPresent(docs, targets) ==
    { LabelOf(docs[i], targets) : i \in { j \in 1..Len(docs) : IsLabelled(docs[j], targets) } }

RECURSIVE JoinContents(_)
\* docsWithContent.map(doc => doc.content).join(' ')
JoinContents(docs) ==
    IF docs = <<>> THEN <<>> ELSE Head(docs).content \o JoinContents(Tail(docs))

\* the words the forEach of lines 322-328 counts for a category
Counted(category, word) ==
    /\ ToLowerCase(word) # ToLowerCase(category)
    /\ ~(NameIncludes(category, ToLowerCase(word)) /\ StrLen(word) > 3)

Occurrences(words, w) == Cardinality({ i \in 1..Len(words) : words[i] = w })

RECURSIVE FirstSeen(_, _)
\* Object.entries(wordCounts): the distinct counted words in insertion order
FirstSeen(words, seen) ==
    IF words = <<>> THEN <<>>
    ELSE IF Head(words) \in seen THEN FirstSeen(Tail(words), seen)
         ELSE << Head(words) >> \o FirstSeen(Tail(words), seen \cup { Head(words) })

RECURSIVE InsertByValue(_, _)
\* w put into a list sorted by descending value, after the words of equal value
InsertByValue(sorted, w) ==
    IF sorted = <<>> THEN << w >>
    ELSE IF Head(sorted).value >= w.value
         THEN << Head(sorted) >> \o InsertByValue(Tail(sorted), w)
         ELSE << w >> \o sorted

RECURSIVE SortByValue(_, _)
\* .sort((a, b) => b.value - a.value), a stable sort
SortByValue(list, sorted) ==
    IF list = <<>> THEN sorted
    ELSE SortByValue(Tail(list), InsertByValue(sorted, Head(list)))

\* wordCloudWords of one category: the frequency count of its combined text
WordCounts(category, docsWithContent) ==
    LET all == preprocessText(JoinContents(docsWithContent))
        words == SelectSeq(all, LAMBDA w : Counted(category, w))
        distinct == FirstSeen(words, {})
    IN  SortByValue([ i \in 1..Len(distinct) |-> Word(distinct[i], Occurrences(words, distinct[i])) ],
                    <<>>)

\* lines 335-337 without the fallback to the placeholder
CloudOfNoFallback(category, docs, targets, draw) ==
    LET docsWithContent == SelectSeq(InCategory(docs, targets, category), HasContent)
    IN  IF Len(docsWithContent) = 0 THEN PlaceholderWords(category, draw)
        ELSE WordCounts(category, docsWithContent)

\* wordClouds[category] of lines 305-338
CloudOf(category, docs, targets, draw) ==
    LET docsWithContent == SelectSeq(InCategory(docs, targets, category), HasContent)
        wordCloudWords == WordCounts(category, docsWithContent)
    IN  IF Len(docsWithContent) = 0 THEN PlaceholderWords(category, draw)
        ELSE IF Len(wordCloudWords) > 0 THEN wordCloudWords
        ELSE PlaceholderWords(category, draw)

\* The value generateWordClouds(docs) hands to setWordCloudData; targets is the
\* targetData of the render whose closure the call runs in.
generateWordClouds(docs, targets, draw) ==
    LET categories == LabelsPresent(docs, targets)
    IN  IF categories = {}
        THEN generatePlaceholderWordClouds(ValidSet, draw)
        ELSE IF ~\E i \in 1..Len(docs) : HasContent(docs[i])
        THEN generatePlaceholderWordClouds(categories, draw)
        ELSE [ c \in categories |-> CloudOf(c, docs, targets, draw) ]

\* ------------------------------------------------------------------------
\* State
\* ------------------------------------------------------------------------
VARIABLES
    server,                  \* the documents the back end stores
    serverChanges,           \* how often the stored corpus has changed
    \* StatisticalAnalysis: its useState values (lines 159-177)
    documents, loading, error, totalDocuments,
    categoryCounts, categoryAverageScores, categoryAverageSizes, categoryAverageLengths,
    pcaData, accuracy, totalLabeled, wordCloudData, targetData, documentsWithContent,
    categoryAccuracy,
    fd,                      \* the running fetchData: its position and its locals
    loads                    \* completed runs of fetchData

VARIABLES
    \* App (App.tsx 14-16) and the toast service
    uploadedDocument, refreshKey, toasts,
    \* DocumentList: the useState values of the mounted instance (lines 8-11)
    listDocuments, listLoading, listError, isReclassifying,
    listMounting,            \* the useEffect of the mounted instance has yet to run
    listFetches,             \* the getDocuments calls of fetchDocuments in flight
    listGets,                \* fetchDocuments calls so far
    reclassifying,           \* the handleReclassifyAll calls past their first await
    reclassifyRequests,      \* reclassify-all requests sent so far
    deleting,                \* the handleDelete calls waiting for deleteDocument
    listClicks,              \* confirmed clicks in the list so far
    \* FileUpload: its useState values (part_000 84-89)
    uploading, uploadError, fileValidationError, isDuplicateFile, selectedFiles,
    currentUploadIndex,
    up,                      \* the running uploadFiles: its position and its closure
    uploadRequests,          \* upload requests sent so far
    uploadsSettled,          \* upload requests answered or failed so far
    submits,                 \* submits of the form so far
    \* errorService
    weh,                     \* the running withErrorHandling: its position and its locals
    \* the classification core behind the API
    classifier,              \* the registry, the policy and the last classification
    \* the ingestion core behind the API
    corpus,                  \* the persisted documents
    duplicateIndex,          \* the DuplicateIndex: content hash and document id
    ingests,                 \* the uploads being ingested, each with its position
    \* DocumentDetail: the route parameter and its useState values (lines 7-11)
    routeId, detailDocument, detailLoading, detailError,
    detailFetches,           \* the getDocument calls of fetchDocument in flight
    detailGets,              \* runs of the effect of DocumentDetail so far
    detailSettled,           \* the runs of the effect that have ended, and how
    navigations              \* changes of the route id so far

serverVars == << server, serverChanges >>
saState == << documents, loading, error, totalDocuments, categoryCounts,
              categoryAverageScores, categoryAverageSizes, categoryAverageLengths,
              pcaData, accuracy, totalLabeled, wordCloudData, targetData,
              documentsWithContent, categoryAccuracy >>
saVars == << saState, fd, loads >>
appVars == << uploadedDocument, refreshKey, toasts >>
listState == << listDocuments, listLoading, listError, isReclassifying >>
listVars == << listState, listMounting, listFetches, listGets, reclassifying,
               reclassifyRequests, deleting, listClicks >>
upState == << uploading, uploadError, fileValidationError, isDuplicateFile,
              selectedFiles, currentUploadIndex >>
upVars == << upState, up, uploadRequests, uploadsSettled, submits >>
\* the services that no component calls
\* the classification core
coreVars == << classifier, corpus, duplicateIndex, ingests >>
libVars == << weh, coreVars >>
ddState == << detailDocument, detailLoading, detailError >>
ddVars == << routeId, ddState, detailFetches, detailGets, detailSettled, navigations >>

vars == << serverVars, saVars, appVars, listVars, upVars, libVars, ddVars >>

\* what the actions of StatisticalAnalysis leave alone
notAnalysis == << serverVars, appVars, listVars, upVars, libVars, ddVars >>

NoError == "null"
NoMap == [ c \in {} |-> Zero ]
\* Math.floor(Math.random() * 60): the least and the greatest value
RandomDraws == { 0, 59 }

\* what fetch('/targets.csv') may bring: a failed request, a file without the
\* filename or category column, or the parsed rows
Csv(ok, hasColumns, rows) == [ok |-> ok, hasColumns |-> hasColumns, rows |-> rows]
CsvPool ==
    { Csv(FALSE, FALSE, <<>>), Csv(TRUE, FALSE, <<>>), Csv(TRUE, TRUE, <<>>),
      Csv(TRUE, TRUE, << Target(File("contract", "pdf"), "Legal Document"),
                         Target(File("notes", ""), "Technical Documentation"),
                         Target(File("zero", "txt"), "Memo"),
                         Target(File("memo", "docx"), "Other") >>),
      Csv(TRUE, TRUE, << Target(File("contract", "txt"), "Business Proposal"),
                         Target(File("notes", "txt"), "Business Proposal") >>) }

\* documentsWithTargets.slice(0, 10)
ContentFetchLimit == 10

\* fetchData at rest; csvParsed: this run has parsed targets.csv (line 391)
Idle == [ pc |-> "idle", targetData |-> <<>>, data |-> <<>>, csvParsed |-> FALSE,
          pending |-> {}, fetchedDocs |-> <<>>, documentsWithTargets |-> <<>> ]

InitServer == server \in Corpora /\ serverChanges = 0

InitAnalysis ==
    /\ documents = <<>> /\ loading = TRUE /\ error = NoError /\ totalDocuments = 0
    /\ categoryCounts = NoMap /\ categoryAverageScores = NoMap
    /\ categoryAverageSizes = NoMap /\ categoryAverageLengths = NoMap
    /\ pcaData = [ points |-> <<>>, categories |-> <<>>, filenames |-> <<>> ]
    /\ accuracy = <<>> /\ totalLabeled = 0 /\ wordCloudData = NoMap
    /\ targetData = <<>> /\ documentsWithContent = <<>> /\ categoryAccuracy = NoMap
    /\ fd = [ Idle EXCEPT !.pc = "mount" ]
    /\ loads = 0

\* Another client or another page changes the stored corpus: it deletes a
\* document, or uploads one.
ServerChange ==
    /\ serverChanges < MaxServerChanges
    /\ \E ids \in SUBSET PoolIds :
          /\ Cardinality(ids) <= MaxDocs
          /\ LET now == { server[i].id : i \in 1..Len(server) }
             IN  Cardinality((ids \ now) \cup (now \ ids)) = 1
          /\ server' = PickDocs(ids, 1)
    /\ serverChanges' = serverChanges + 1
    /\ UNCHANGED << saVars, ddVars, appVars, listVars, upVars, libVars >>

\* ------------------------------------------------------------------------
\* fetchData (StatisticalAnalysis.tsx 537-707)
\* ------------------------------------------------------------------------
\* fetchData up to its first await.  The call runs in the closure of the render
\* that created it: its targetData is the state of that render.
StartLoad ==
    /\ loading' = TRUE
    /\ error' = NoError
    /\ fd' = [ Idle EXCEPT !.pc = "getDocuments", !.targetData = targetData ]
    /\ UNCHANGED << documents, totalDocuments, categoryCounts, categoryAverageScores,
                    categoryAverageSizes, categoryAverageLengths, pcaData, accuracy,
                    totalLabeled, wordCloudData, targetData, documentsWithContent,
                    categoryAccuracy, loads >>

\* useEffect(() => { fetchData(); }, [])
Mount == fd.pc = "mount" /\ StartLoad /\ UNCHANGED notAnalysis

\* onClick={fetchData}: the buttons exist once the spinner is gone
Refresh ==
    fd.pc = "idle" /\ ~loading /\ loads < MaxLoads /\ StartLoad /\ UNCHANGED notAnalysis

\* getDocuments() rejects: the catch and the finally of fetchData
GetDocumentsFails ==
    /\ fd.pc = "getDocuments"
    /\ loading' = FALSE
    /\ error' = "Error loading documents"
    /\ fd' = Idle
    /\ loads' = loads + 1
    /\ UNCHANGED << documents, totalDocuments, categoryCounts, categoryAverageScores,
                    categoryAverageSizes, categoryAverageLengths, pcaData, accuracy,
                    totalLabeled, wordCloudData, targetData, documentsWithContent,
                    categoryAccuracy, notAnalysis >>

\* getDocuments() resolves: lines 543-547, then the fetch of targets.csv
GetDocumentsReply ==
    /\ fd.pc = "getDocuments"
    /\ documents' = server
    /\ totalDocuments' = Len(server)
    /\ fd' = [ fd EXCEPT !.pc = "targets", !.data = server ]
    /\ UNCHANGED << loading, error, categoryCounts, categoryAverageScores,
                    categoryAverageSizes, categoryAverageLengths, pcaData, accuracy,
                    totalLabeled, wordCloudData, targetData, documentsWithContent,
                    categoryAccuracy, loads, notAnalysis >>

\* The rest of fetchTargetsAndCalculateAccuracy once targets.csv has arrived
\* (or failed), then fetchDocumentsWithContent up to its Promise.all.
TargetsReply(csv, draw) ==
    LET docs == fd.data
        parsed == csv.ok /\ csv.hasColumns
        a == AccuracyOf(docs, csv.rows)
        documentsWithTargets == SelectSeq(docs, LAMBDA d : IsLabelled(d, fd.targetData))
        sliced == SubSeq(documentsWithTargets, 1,
                         IF Len(documentsWithTargets) < ContentFetchLimit
                         THEN Len(documentsWithTargets) ELSE ContentFetchLimit)
    IN  /\ fd.pc = "targets"
        /\ targetData' = IF parsed THEN csv.rows ELSE targetData
        /\ categoryAccuracy' = IF parsed THEN CategoryStats(a) ELSE categoryAccuracy
        /\ accuracy' = IF parsed /\ a.totalLabeledDocs > 0
                       THEN << JsDiv(a.correctPredictions * 100, a.totalLabeledDocs) >>
                       ELSE accuracy
        /\ totalLabeled' = IF parsed /\ a.totalLabeledDocs > 0
                           THEN a.totalLabeledDocs ELSE totalLabeled
        /\ wordCloudData' = IF parsed /\ Len(csv.rows) > 0 /\ Len(docs) > 0
                            THEN generateWordClouds(docs, fd.targetData, draw)
                            ELSE wordCloudData
        /\ fd' = [ fd EXCEPT !.pc = "contents",
                             !.csvParsed = parsed,
                             !.documentsWithTargets = documentsWithTargets,
                             !.pending = { sliced[i].id : i \in 1..Len(sliced) } ]
        /\ UNCHANGED << documents, loading, error, totalDocuments, categoryCounts,
                        categoryAverageScores, categoryAverageSizes,
                        categoryAverageLengths, pcaData, documentsWithContent, loads,
                        notAnalysis >>

\* a fetch of a document that removes it from the store
GetDocumentReplyRemoves(id, ok) ==
    /\ fd.pc = "contents"
    /\ id \in fd.pending
    /\ fd' = [ fd EXCEPT !.pending = @ \ { id } ]
    /\ server' = SelectSeq(server, LAMBDA d : d.id # id)
    /\ UNCHANGED << saState, loads, serverChanges, appVars, listVars, upVars, libVars, ddVars >>

\* one getDocument(doc.id) of fetchDocumentsWithContent settles (lines 509-518)
GetDocumentReply(id, ok) ==
    LET stored == { i \in 1..Len(server) : server[i].id = id }
        fullDoc == server[CHOOSE i \in stored : TRUE]
    IN  /\ fd.pc = "contents"
        /\ id \in fd.pending
        /\ ok => stored # {}
        /\ fd' = [ fd EXCEPT !.pending = @ \ { id },
                             !.fetchedDocs = IF ok /\ HasContent(fullDoc)
                                             THEN Append(@, fullDoc) ELSE @ ]
        /\ UNCHANGED << saState, loads, notAnalysis >>

\* Promise.all has settled: the end of fetchDocumentsWithContent (lines
\* 521-531), then the statistics, the projection and the finally of fetchData
\* (lines 555-682, 704-706).
FinishLoad(draw) ==
    LET t == Tally(fd.data, 1, EmptyTally)
        reducedData == performPCA(t.featureVectors)
    IN  /\ fd.pc = "contents"
        /\ fd.pending = {}
        /\ documentsWithContent' = fd.fetchedDocs
        /\ wordCloudData' =
              generateWordClouds(IF Len(fd.fetchedDocs) > 0 THEN fd.fetchedDocs
                                 ELSE fd.documentsWithTargets,
                                 fd.targetData, draw)
        /\ pcaData' = IF Len(t.featureVectors) >= 2
                      THEN [ points |-> reducedData, categories |-> t.docCategories,
                             filenames |-> t.docFilenames ]
                      ELSE pcaData
        /\ categoryCounts' = t.counts
        /\ categoryAverageScores' = [ c \in ValidSet |-> AvgScore(t, c) ]
        /\ categoryAverageSizes' = [ c \in ValidSet |-> AvgSize(t, c) ]
        /\ categoryAverageLengths' = [ c \in ValidSet |-> AvgLength(t, c) ]
        /\ error' = NoError
        /\ loading' = FALSE
        /\ fd' = Idle
        /\ loads' = loads + 1
        /\ UNCHANGED << documents, totalDocuments, accuracy, totalLabeled, targetData,
                        categoryAccuracy, notAnalysis >>

\* ------------------------------------------------------------------------
\* App (App.tsx) and the toast service
\* ------------------------------------------------------------------------
NoDocument == [ id |-> 0 ]
Toast(type, message, about) == [ type |-> type, message |-> message, about |-> about ]

InitApp == uploadedDocument = NoDocument /\ refreshKey = 0 /\ toasts = <<>>

\* handleUploadSuccess, then the render it causes: <DocumentList
\* key={refreshKey} /> replaces the mounted list by a new instance, whose
\* state is that of useState.  more: the toasts the caller raises next.
handleUploadSuccess(document, more) ==
    /\ uploadedDocument' = document
    /\ refreshKey' = refreshKey + 1
    /\ toasts' = Append(toasts, Toast("success", "was successfully uploaded and classified",
                                      document.filename)) \o more
    /\ listDocuments' = <<>>
    /\ listLoading' = TRUE
    /\ listError' = NoError
    /\ isReclassifying' = FALSE
    /\ listMounting' = TRUE

\* the stored documents once document is stored too
Stored(document) ==
    PickDocs({ server[i].id : i \in 1..Len(server) } \cup { document.id }, 1)

IsStored(id) == \E i \in 1..Len(server) : server[i].id = id

\* ------------------------------------------------------------------------
\* DocumentList (DocumentList.tsx)
\* ------------------------------------------------------------------------
InitList ==
    /\ listDocuments = <<>> /\ listLoading = TRUE /\ listError = NoError
    /\ isReclassifying = FALSE /\ listMounting = TRUE
    /\ listFetches = {} /\ listGets = 0
    /\ reclassifying = {} /\ reclassifyRequests = 0
    /\ deleting = {} /\ listClicks = 0

\* the state setters of an instance that is no longer mounted do nothing
Mounted(key) == key = refreshKey

\* the table with its buttons is rendered (lines 74-108)
ListShown == ~listLoading /\ listError = NoError /\ Len(listDocuments) > 0

\* fetchDocuments of the instance key, up to its await (lines 13-16)
fetchDocuments(key) ==
    /\ listLoading' = IF Mounted(key) THEN TRUE ELSE listLoading
    /\ listGets' = listGets + 1
    /\ listFetches' = listFetches \cup { [ key |-> key, n |-> listGets + 1 ] }

\* useEffect(() => { fetchDocuments(); }, [])
ListMount ==
    /\ listMounting
    /\ listMounting' = FALSE
    /\ fetchDocuments(refreshKey)
    /\ UNCHANGED << listDocuments, listError, isReclassifying, reclassifying,
                    reclassifyRequests, deleting, listClicks,
                    serverVars, saVars, ddVars, libVars, appVars, upVars >>

\* onClick={fetchDocuments} of the error view (lines 83-96)
ListRetry ==
    /\ ~listLoading /\ listError # NoError
    /\ listClicks < MaxListClicks
    /\ listClicks' = listClicks + 1
    /\ fetchDocuments(refreshKey)
    /\ UNCHANGED << listDocuments, listError, isReclassifying, listMounting,
                    reclassifying, reclassifyRequests, deleting,
                    serverVars, saVars, ddVars, libVars, appVars, upVars >>

\* getDocuments() resolves: the rest of fetchDocuments (lines 17-18, 22)
ListDocumentsReply(f) ==
    /\ f \in listFetches
    /\ listFetches' = listFetches \ { f }
    /\ IF Mounted(f.key)
       THEN listDocuments' = server /\ listError' = NoError /\ listLoading' = FALSE
       ELSE UNCHANGED << listDocuments, listError, listLoading >>
    /\ UNCHANGED << isReclassifying, listMounting, listGets, reclassifying,
                    reclassifyRequests, deleting, listClicks,
                    serverVars, saVars, ddVars, libVars, appVars, upVars >>

\* getDocuments() rejects: the catch and the finally of fetchDocuments
ListDocumentsFails(f) ==
    /\ f \in listFetches
    /\ listFetches' = listFetches \ { f }
    /\ IF Mounted(f.key)
       THEN listError' = "Error loading documents" /\ listLoading' = FALSE
       ELSE UNCHANGED << listError, listLoading >>
    /\ UNCHANGED << listDocuments, isReclassifying, listMounting, listGets,
                    reclassifying, reclassifyRequests, deleting, listClicks,
                    serverVars, saVars, ddVars, libVars, appVars, upVars >>

\* handleReclassifyAll up to its await: the button is enabled, the user
\* confirms, the request is sent (lines 47-55)
ReclassifyAllConfirmed ==
    /\ ListShown
    /\ ~isReclassifying
    /\ listClicks < MaxListClicks
    /\ listClicks' = listClicks + 1
    /\ isReclassifying' = TRUE
    /\ reclassifyRequests' = reclassifyRequests + 1
    /\ reclassifying' = reclassifying \cup { [ key |-> refreshKey, pc |-> "request" ] }
    /\ UNCHANGED << listDocuments, listLoading, listError, listMounting, listFetches,
                    listGets, deleting, serverVars, saVars, ddVars, libVars, appVars, upVars >>

\* the catch of handleReclassifyAll without its setIsReclassifying(false)
ReclassifyFailsStaysBusy(c) ==
    /\ c \in reclassifying /\ c.pc = "request"
    /\ reclassifying' = reclassifying \ { c }
    /\ listError' = IF Mounted(c.key) THEN "Error reclassifying documents" ELSE listError
    /\ UNCHANGED << isReclassifying, listDocuments, listLoading, listMounting, listFetches,
                    listGets, reclassifyRequests, deleting, listClicks,
                    serverVars, saVars, ddVars, libVars, appVars, upVars >>

\* reclassifyAllDocuments() rejects, or its reply is not a success: the
\* catch of handleReclassifyAll (lines 68-71)
ReclassifyFails(c) ==
    /\ c \in reclassifying /\ c.pc = "request"
    /\ reclassifying' = reclassifying \ { c }
    /\ listError' = IF Mounted(c.key) THEN "Error reclassifying documents" ELSE listError
    /\ isReclassifying' = IF Mounted(c.key) THEN FALSE ELSE isReclassifying
    /\ UNCHANGED << listDocuments, listLoading, listMounting, listFetches, listGets,
                    reclassifyRequests, deleting, listClicks,
                    serverVars, saVars, ddVars, libVars, appVars, upVars >>

\* reclassifyAllDocuments() resolves with {documentsFound, reclassifyStarted}
\* (lines 57-67): the timer is set, or the action is enabled again
ReclassifyReply(c, reclassifyStarted, documentsFound) ==
    /\ c \in reclassifying /\ c.pc = "request"
    /\ IF reclassifyStarted
       THEN /\ toasts' = Append(toasts, Toast("success", "Reclassification started",
                                              documentsFound))
            /\ reclassifying' = (reclassifying \ { c }) \cup { [ c EXCEPT !.pc = "timer" ] }
            /\ UNCHANGED isReclassifying
       ELSE /\ toasts' = Append(toasts, Toast("info", "No documents found to reclassify", 0))
            /\ reclassifying' = reclassifying \ { c }
            /\ isReclassifying' = IF Mounted(c.key) THEN FALSE ELSE isReclassifying
    /\ UNCHANGED << listDocuments, listLoading, listError, listMounting, listFetches,
                    listGets, reclassifyRequests, deleting, listClicks,
                    uploadedDocument, refreshKey, serverVars, saVars, ddVars, libVars, upVars >>

\* the callback of setTimeout(..., 5000) (lines 60-63)
ReclassifyTimer(c) ==
    /\ c \in reclassifying /\ c.pc = "timer"
    /\ reclassifying' = reclassifying \ { c }
    /\ fetchDocuments(c.key)
    /\ isReclassifying' = IF Mounted(c.key) THEN FALSE ELSE isReclassifying
    /\ UNCHANGED << listDocuments, listError, listMounting, reclassifyRequests,
                    deleting, listClicks, serverVars, saVars, ddVars, libVars, appVars, upVars >>

\* handleDelete up to its await; documents is the list of the render the
\* handler was created in (lines 30-39)
DeleteConfirmed(id) ==
    /\ ListShown
    /\ \E i \in 1..Len(listDocuments) : listDocuments[i].id = id
    /\ listClicks < MaxListClicks
    /\ listClicks' = listClicks + 1
    /\ deleting' = deleting \cup { [ key |-> refreshKey, id |-> id,
                                     documents |-> listDocuments ] }
    /\ UNCHANGED << listState, listMounting, listFetches, listGets, reclassifying,
                    reclassifyRequests, serverVars, saVars, ddVars, libVars, appVars, upVars >>

\* deleteDocument(id) resolves (line 40)
DeleteReply(d) ==
    /\ d \in deleting
    /\ IsStored(d.id)
    /\ deleting' = deleting \ { d }
    /\ server' = SelectSeq(server, LAMBDA doc : doc.id # d.id)
    /\ listDocuments' = IF Mounted(d.key)
                        THEN SelectSeq(d.documents, LAMBDA doc : doc.id # d.id)
                        ELSE listDocuments
    /\ UNCHANGED << listLoading, listError, isReclassifying, listMounting, listFetches,
                    listGets, reclassifying, reclassifyRequests, listClicks,
                    serverChanges, saVars, ddVars, libVars, appVars, upVars >>

\* deleteDocument(id) rejects (lines 41-43)
DeleteFails(d) ==
    /\ d \in deleting
    /\ deleting' = deleting \ { d }
    /\ listError' = IF Mounted(d.key) THEN "Error deleting document" ELSE listError
    /\ UNCHANGED << listDocuments, listLoading, isReclassifying, listMounting,
                    listFetches, listGets, reclassifying, reclassifyRequests, listClicks,
                    serverVars, saVars, ddVars, libVars, appVars, upVars >>

\* The upload form next to the list has stored a document: the success path
\* of uploadFiles (part_000 103-106) as the list sees it.
UploadSucceeds(document) ==
    /\ refreshKey < MaxUploads
    /\ ~IsStored(document.id)
    /\ server' = Stored(document)
    /\ handleUploadSuccess(document, << Toast("success", "uploaded successfully",
                                              document.filename) >>)
    /\ UNCHANGED << listFetches, listGets, reclassifying, reclassifyRequests, deleting,
                    listClicks, serverChanges, saVars, ddVars, libVars, upVars >>

\* ------------------------------------------------------------------------
\* uploadDocument (api.ts 31-69)
\* ------------------------------------------------------------------------
\* undefined; defined = FALSE for undefined and null, type is what typeof gives
Null == [ defined |-> FALSE, type |-> "undefined" ]
JsNull == [ defined |-> FALSE, type |-> "object" ]
\* the status of an error that has none
NoStatus == 0

UFile(name, type, size) == [ name |-> name, type |-> type, size |-> size ]

\* the body of an error response: {error, message, details, data}
Body(code, message, duplicate_filename) ==
    [ defined |-> TRUE, type |-> "object", text |-> "",
      error |-> code, message |-> message, details |-> Null,
      data |-> IF duplicate_filename = NoName THEN Null
               ELSE [ defined |-> TRUE, duplicate_id |-> 1,
                      duplicate_filename |-> duplicate_filename ],
      detail |-> Null ]

\* a body that nests its content in a "detail" field, as FastAPI does
Nested(detail) == [ Body("", "", NoName) EXCEPT !.detail = detail ]

\* a body that is a string; its properties are undefined
StringBody(text) == [ Body("", "", NoName) EXCEPT !.type = "string", !.text = text ]

\* what || and ! make of a value
Truthy(v) == v.defined /\ ~(v.type = "string" /\ v.text = "")

Response(status, data) == [ defined |-> TRUE, status |-> status, data |-> data ]

\* What the request of uploadDocument may come to: a stored document, a 2xx
\* reply that is not a success, an error response, or no response at all.
Created(id) == [ kind |-> "created", id |-> id, message |-> "", response |-> Null ]
NotSuccess(message) == [ kind |-> "failure", id |-> 0, message |-> message, response |-> Null ]
Rejected(response) == [ kind |-> "rejected", id |-> 0, message |-> "", response |-> response ]
Unreachable == Rejected(Null)

ErrorReplies ==
    { Rejected(Response(409, Body("DUPLICATE_FILE", "Duplicate document",
                                  File("contract", "pdf")))),
      Rejected(Response(409, Body("", "", NoName))),
      Rejected(Response(409, Body("FILE_TOO_LARGE", "", File("notes", "txt")))),
      Rejected(Response(409, Body("TEXT_EXTRACTION_FAILED", "", NoName))),
      Rejected(Response(400, Body("FILE_TOO_LARGE", "File too large", NoName))),
      Rejected(Response(400, Body("TEXT_EXTRACTION_FAILED", "", NoName))),
      Rejected(Response(400, Body("INVALID_FILE_TYPE", "Invalid file type", NoName))),
      Rejected(Response(400, Nested(Body("TEXT_EXTRACTION_FAILED", "No text", NoName)))),
      Rejected(Response(500, Null)),
      Unreachable,
      NotSuccess(""), NotSuccess("Upload failed") }

UploadReplies == ErrorReplies \cup { Created(id) : id \in PoolIds }

\* the error axios rejects with; setsStatus: the axios of the build copies the
\* status of the response to the error
AxiosError(response, setsStatus) ==
    [ defined |-> TRUE, isAxiosError |-> TRUE,
      response |-> response,
      status |-> IF setsStatus /\ response.defined THEN response.status ELSE NoStatus,
      code |-> IF response.defined THEN "ERR_BAD_REQUEST" ELSE "ERR_NETWORK",
      message |-> IF response.defined THEN "Request failed" ELSE "Network Error",
      details |-> Null, originalError |-> Null, data |-> Null ]

\* new Error(message)
PlainError(message) ==
    [ defined |-> TRUE, isAxiosError |-> FALSE,
      response |-> Null, status |-> NoStatus, code |-> "",
      message |-> message, details |-> Null, originalError |-> Null, data |-> Null ]

\* uploadDocument: the document of the reply, or the error it throws
uploadDocument(reply, setsStatus) ==
    CASE reply.kind = "created" -> [ ok |-> TRUE, result |-> DocPool[reply.id] ]
      [] reply.kind = "failure" ->
            [ ok |-> FALSE,
              error |-> PlainError(IF reply.message = "" THEN "Unknown error"
                                   ELSE reply.message) ]
      [] OTHER ->
            LET thrown == AxiosError(reply.response, setsStatus)
                apiError == IF reply.response.defined THEN reply.response.data ELSE Null
            IN  [ ok |-> FALSE,
                  error |-> IF Truthy(apiError)
                            THEN [ thrown EXCEPT
                                     !.code = IF apiError.error # "" THEN apiError.error ELSE @,
                                     !.message = IF apiError.message # ""
                                                 THEN apiError.message ELSE @,
                                     !.details = IF apiError.details.defined
                                                 THEN apiError.details ELSE @ ]
                            ELSE thrown ]

\* ------------------------------------------------------------------------
\* errorService: formatErrorMessage (api.ts 164-302)
\* ------------------------------------------------------------------------
VALIDATION == "validation"
NETWORK == "network"
AUTHENTICATION == "authentication"
FILE_PROCESSING == "file_processing"
SERVER == "server"
UNKNOWN == "unknown"

ErrorCategory == { VALIDATION, NETWORK, AUTHENTICATION, FILE_PROCESSING, SERVER, UNKNOWN }

\* an AppError; code "" and details Null are the fields it does not have
AppError(message, category, code, details, originalError) ==
    [ defined |-> TRUE, kind |-> "AppError", message |-> message, category |-> category,
      code |-> code, details |-> details, originalError |-> originalError ]

\* what reading a property of null throws
TypeError ==
    [ defined |-> TRUE, kind |-> "TypeError",
      message |-> "Cannot read properties of null", category |-> "",
      code |-> "", details |-> Null, originalError |-> Null ]

\* the messages of the errors that are not axios errors, with the phrases of
\* formatErrorMessage that each of them contains
Phrases ==
    [ m \in { "PDF extraction error: no text layer", "DOCX extraction error: bad archive",
              "Error extracting text", "The file size exceeds the limit",
              "Unsupported file type", "PDF extraction error: unknown file type",
              "Unknown error", "Upload failed" } |->
        CASE m = "PDF extraction error: no text layer" -> { "PDF extraction error" }
          [] m = "DOCX extraction error: bad archive" -> { "DOCX extraction error" }
          [] m = "Error extracting text" -> { "Error extracting text" }
          [] m = "The file size exceeds the limit" -> { "file size exceeds" }
          [] m = "Unsupported file type" -> { "file type" }
          [] m = "PDF extraction error: unknown file type" ->
                { "PDF extraction error", "file type" }
          [] OTHER -> {} ]

\* message.includes(phrase)
Includes(message, phrase) == message \in DOMAIN Phrases /\ phrase \in Phrases[message]

\* a || b on strings
OrElse(a, b) == IF a # "" THEN a ELSE b

\* {duplicate: true}
DuplicateDetails == [ defined |-> TRUE, type |-> "object", duplicate |-> TRUE ]

\* a switch that leaves every 400 in the category VALIDATION
StatusCaseOnly(status, errorCode) ==
    [ category |-> IF status = 400 THEN VALIDATION
                   ELSE IF status \in { 500, 502, 503, 504 } THEN SERVER ELSE UNKNOWN,
      code |-> "BAD_REQUEST", message |-> "The request was invalid." ]

\* the switch on the status of the response (lines 206-263): the category,
\* and what the message and the code fall back to
StatusCase(status, errorCode) ==
    CASE status = 400 ->
            IF errorCode = "FILE_TOO_LARGE"
            THEN [ category |-> FILE_PROCESSING, code |-> "BAD_REQUEST",
                   message |-> "The file exceeds the maximum allowed size of 10MB." ]
            ELSE IF errorCode = "TEXT_EXTRACTION_FAILED"
            THEN [ category |-> FILE_PROCESSING, code |-> "BAD_REQUEST",
                   message |-> "Could not extract text from the file." ]
            ELSE [ category |-> VALIDATION, code |-> "BAD_REQUEST",
                   message |-> "The request was invalid. Please check your input." ]
      [] status \in { 401, 403 } ->
            [ category |-> AUTHENTICATION, code |-> "UNAUTHORIZED",
              message |-> "You do not have permission to perform this action." ]
      [] status = 404 ->
            [ category |-> UNKNOWN, code |-> "NOT_FOUND",
              message |-> "The requested resource was not found." ]
      [] status = 409 ->
            [ category |-> VALIDATION, code |-> "DUPLICATE_RESOURCE",
              message |-> "A duplicate resource was detected." ]
      [] status = 413 ->
            [ category |-> FILE_PROCESSING, code |-> "FILE_TOO_LARGE",
              message |-> "The file is too large to upload." ]
      [] status = 415 ->
            [ category |-> FILE_PROCESSING, code |-> "UNSUPPORTED_FILE_TYPE",
              message |-> "The file type is not supported." ]
      [] status = 429 ->
            [ category |-> UNKNOWN, code |-> "RATE_LIMIT_EXCEEDED",
              message |-> "Too many requests. Please try again later." ]
      [] status \in { 500, 502, 503, 504 } ->
            [ category |-> SERVER, code |-> "SERVER_ERROR",
              message |-> "The server encountered an error. Please try again later." ]
      [] OTHER ->
            [ category |-> UNKNOWN, code |-> "UNKNOWN_ERROR",
              message |-> "An unexpected error occurred" ]

\* the branch of the errors that are not axios errors (lines 273-299)
FileProcessingCase(message) ==
    IF Includes(message, "PDF extraction error")
    THEN [ category |-> FILE_PROCESSING, code |-> "PDF_EXTRACTION_ERROR",
           message |-> "Unable to extract text from PDF." ]
    ELSE IF Includes(message, "DOCX extraction error")
    THEN [ category |-> FILE_PROCESSING, code |-> "DOCX_EXTRACTION_ERROR",
           message |-> "Unable to extract text from DOCX. The file may be corrupted." ]
    ELSE IF Includes(message, "Error extracting text")
    THEN [ category |-> FILE_PROCESSING, code |-> "TEXT_EXTRACTION_ERROR",
           message |-> "Unable to process the document. Please check the file format." ]
    ELSE IF Includes(message, "file size exceeds")
    THEN [ category |-> FILE_PROCESSING, code |-> "FILE_SIZE_EXCEEDED",
           message |-> "The file is too large. Maximum file size is 10MB." ]
    ELSE IF Includes(message, "file type")
    THEN [ category |-> FILE_PROCESSING, code |-> "INVALID_FILE_TYPE",
           message |-> "File type not supported. Please upload PDF, DOC, DOCX, or TXT files." ]
    ELSE [ category |-> UNKNOWN, code |-> "", message |-> message ]

\* formatErrorMessage(error): the AppError it returns, or the TypeError it
\* throws where it reads a property of a null body
formatErrorMessage(err) ==
    IF err.defined /\ err.isAxiosError
    THEN IF ~err.response.defined
         THEN AppError("Unable to connect to the server. Please check your internet connection.",
                       NETWORK, "", Null, err)
         ELSE LET responseData == err.response.data
                  errorDetail == IF responseData.defined /\ Truthy(responseData.detail)
                                 THEN responseData.detail ELSE responseData
                  fromDetail == errorDetail.type = "object"
                  fromData == ~fromDetail /\ responseData.type = "object"
                  errorMessage == IF fromDetail THEN errorDetail.message
                                  ELSE IF fromData THEN responseData.message
                                  ELSE IF Truthy(responseData) THEN responseData.text
                                  ELSE err.message
                  errorCode == IF fromDetail THEN errorDetail.error
                               ELSE IF fromData THEN responseData.error
                               ELSE "UNKNOWN_ERROR"
                  details == IF fromDetail THEN errorDetail.details
                             ELSE IF fromData THEN responseData.details
                             ELSE JsNull
                  case == StatusCase(err.response.status, errorCode)
              IN  IF fromDetail /\ ~errorDetail.defined
                  THEN TypeError
                  ELSE AppError(OrElse(errorMessage, case.message), case.category,
                                OrElse(errorCode, case.code),
                                IF Truthy(details) THEN details
                                ELSE IF err.response.status = 409 THEN DuplicateDetails
                                ELSE Null,
                                err)
    ELSE IF err.defined /\ err.message # ""
    THEN LET case == FileProcessingCase(err.message)
         IN  AppError(case.message, case.category, case.code, Null, err)
    ELSE AppError("An unexpected error occurred", UNKNOWN, "", Null, Null)

\* ------------------------------------------------------------------------
\* errorService: withErrorHandling (api.ts 305-345)
\* ------------------------------------------------------------------------
\* the bodies an error response may carry besides those of the upload
\* endpoint: none, null, an empty string, a text
Bodies ==
    { Null, JsNull, StringBody(""), StringBody("Bad Gateway"),
      Body("", "Service unavailable", NoName),
      Nested(Body("VALIDATION_ERROR", "Invalid request", NoName)) }

\* what an operation may reject with: the errors of uploadDocument, axios
\* errors of other statuses and bodies, plain errors, and a thrown undefined
Failures ==
    { uploadDocument(reply, setsStatus).error :
          reply \in ErrorReplies, setsStatus \in BOOLEAN }
    \cup { AxiosError(Response(status, data), TRUE) :
               status \in { 400, 404, 500, 502, 503, 504 }, data \in Bodies }
    \cup { PlainError(m) : m \in DOMAIN Phrases }
    \cup { Null }

\* the retries a caller may pass; retries defaults to 0
RetriesPool == -1..MaxRetries

NotCalled ==
    [ pc |-> "idle", retries |-> 0, attempt |-> 0, invocations |-> 0,
      lastError |-> Null, outcome |-> Null ]

InitService == weh = NotCalled

\* a catch that retries every error response
RetriesEveryResponse(thrown, formattedError) ==
    \/ formattedError.category = NETWORK
    \/ thrown.defined /\ thrown.isAxiosError /\ thrown.response.defined

\* what the catch of withErrorHandling retries (lines 327-330)
Retriable(thrown, formattedError) ==
    \/ formattedError.category = NETWORK
    \/ /\ thrown.defined /\ thrown.isAxiosError
       /\ thrown.response.defined /\ thrown.response.status \in { 502, 503, 504 }

\* withErrorHandling(operation, {retries}) up to its first await, or to its
\* end where the loop has no turn (lines 313-318, 344)
Call(retries) ==
    /\ weh.pc \in { "idle", "returned", "thrown" }
    /\ weh' = IF 0 <= retries
              THEN [ NotCalled EXCEPT !.pc = "operation", !.retries = retries,
                                      !.invocations = 1 ]
              ELSE [ NotCalled EXCEPT !.pc = "thrown", !.retries = retries,
                                      !.outcome = formatErrorMessage(Null) ]
    /\ UNCHANGED << serverVars, saVars, ddVars, appVars, listVars, upVars, coreVars >>

\* operation() resolves (line 318)
OperationResolves ==
    /\ weh.pc = "operation"
    /\ weh' = [ weh EXCEPT !.pc = "returned" ]
    /\ UNCHANGED << serverVars, saVars, ddVars, appVars, listVars, upVars, coreVars >>

\* operation() rejects: the catch, up to the delay or to the throw
\* (lines 319-344)
OperationRejects(thrown) ==
    LET formattedError == formatErrorMessage(thrown)
    IN  /\ weh.pc = "operation"
        /\ weh' = IF formattedError.kind = "TypeError"
                  THEN [ weh EXCEPT !.pc = "thrown", !.lastError = thrown,
                                    !.outcome = formattedError ]
                  ELSE IF Retriable(thrown, formattedError) /\ weh.attempt < weh.retries
                  THEN [ weh EXCEPT !.pc = "delay", !.lastError = thrown ]
                  ELSE [ weh EXCEPT !.pc = "thrown", !.lastError = thrown,
                                    !.outcome = formatErrorMessage(thrown) ]
        /\ UNCHANGED << serverVars, saVars, ddVars, appVars, listVars, upVars, coreVars >>

\* the timer of the retry delay fires: the next turn of the loop, up to its
\* await (lines 333-334, 316-318)
DelayElapses ==
    /\ weh.pc = "delay"
    /\ weh' = [ weh EXCEPT !.pc = "operation", !.attempt = @ + 1, !.invocations = @ + 1 ]
    /\ UNCHANGED << serverVars, saVars, ddVars, appVars, listVars, upVars, coreVars >>

\* ------------------------------------------------------------------------
\* The classifier (specification 4.2, 4.3; its code is not in the sources)
\* ------------------------------------------------------------------------
Abs(n) == IF n < 0 THEN -n ELSE n

RECURSIVE Gcd(_, _)
Gcd(a, b) == IF b = 0 THEN a ELSE Gcd(b, a % b)

\* a quotient in lowest terms, its denominator not negative
Lowest(n, d) ==
    LET g == Gcd(Abs(n), Abs(d))
    IN  IF g = 0 THEN Rat(n, d)
        ELSE IF d < 0 THEN Rat(-(n \div g), -(d \div g)) ELSE Rat(n \div g, d \div g)

Plus(p, q) == Lowest(p.num * q.den + q.num * p.den, p.den * q.den)
Times(p, q) == Lowest(p.num * q.num, p.den * q.den)
Quot(p, q) == Lowest(p.num * q.den, p.den * q.num)

RECURSIVE SumRat(_)
SumRat(s) == IF s = <<>> THEN Zero ELSE Plus(Head(s), SumRat(Tail(s)))

\* the registries a deployment may be initialized with
RegistryPool ==
    { << "Other" >>,
      << "Technical Documentation", "Other" >>,
      << "Technical Documentation", "Business Proposal" >>,
      << "Technical Documentation", "Business Proposal", "Other" >> }

\* what a degenerate text is given: the same to every category, or all to Other
Policies == { "uniform", "other" }

\* the cosine similarities of the model
Sims == { Rat(-1, 1), Rat(0, 1), Rat(1, 1) }

\* a chunk with its weight and its similarity to each category prototype
Chunk(weight, sim) == [ weight |-> weight, sim |-> sim ]

\* the chunks of a text: the single empty chunk of an empty text, or up to
\* MaxChunks chunks that weigh something
ChunksOf(registry) ==
    { << Chunk(0, sim) >> : sim \in [ 1..Len(registry) -> Sims ] }
    \cup UNION { [ 1..n -> { Chunk(weight, sim) :
                               weight \in 1..2, sim \in [ 1..Len(registry) -> Sims ] } ] :
                 n \in 1..MaxChunks }

\* step 2: the weighted average of the similarities to category k
Score(chunks, k) ==
    Quot(SumRat([ c \in 1..Len(chunks) |->
                    Times(Rat(chunks[c].weight, 1), chunks[c].sim[k]) ]),
         Rat(SumSeq([ c \in 1..Len(chunks) |-> chunks[c].weight ]), 1))

\* step 3: from [-1, 1] into [0, 1]
Shifted(score) == Quot(Plus(score, Rat(1, 1)), Rat(2, 1))

\* step 4 for a degenerate text
Degenerate(registry, policy) ==
    IF policy = "other" /\ \E k \in 1..Len(registry) : registry[k] = "Other"
    THEN [ k \in 1..Len(registry) |->
             [ category |-> registry[k],
               confidence |-> IF registry[k] = "Other" THEN Rat(1, 1) ELSE Zero ] ]
    ELSE [ k \in 1..Len(registry) |->
             [ category |-> registry[k], confidence |-> Rat(1, Len(registry)) ] ]

\* shifted scores that are published as they are
ClassifyShiftedOnly(chunks, registry, policy) ==
    [ k \in 1..Len(registry) |->
        [ category |-> registry[k],
          confidence |-> IF SumSeq([ c \in 1..Len(chunks) |-> chunks[c].weight ]) = 0
                         THEN Zero ELSE Shifted(Score(chunks, k)) ] ]

\* classify(chunks, registry): one entry per category, in the order of the
\* registry
classify(chunks, registry, policy) ==
    LET weights == SumSeq([ c \in 1..Len(chunks) |-> chunks[c].weight ])
        shifted == [ k \in 1..Len(registry) |-> Shifted(Score(chunks, k)) ]
        total == SumRat(shifted)
    IN  IF weights = 0 \/ IsZero(total)
        THEN Degenerate(registry, policy)
        ELSE [ k \in 1..Len(registry) |->
                 [ category |-> registry[k], confidence |-> Quot(shifted[k], total) ] ]

NotClassified == << >>

\* before initialize the registry has no category
InitClassifier ==
    classifier = [ registry |-> << >>, policy |-> "uniform", result |-> NotClassified ]

\* initialize(categories): the registry of the process
initialize(registry, policy) ==
    /\ classifier' = [ registry |-> registry, policy |-> policy, result |-> NotClassified ]
    /\ UNCHANGED << serverVars, saVars, ddVars, appVars, listVars, upVars, weh,
                    corpus, duplicateIndex, ingests >>

\* a text is classified
Classify(chunks) ==
    /\ classifier.registry # << >>
    /\ classifier' = [ classifier EXCEPT
                         !.result = classify(chunks, classifier.registry, classifier.policy) ]
    /\ UNCHANGED << serverVars, saVars, ddVars, appVars, listVars, upVars, weh,
                    corpus, duplicateIndex, ingests >>

\* ------------------------------------------------------------------------
\* The duplicate detector and the insertion of a document (specification
\* 4.4, 5; their code is not in the sources)
\* ------------------------------------------------------------------------
Whitespace == { " ", "\n" }

\* the extracted texts of the model, as their words and the whitespace
\* around them
TextPool ==
    { << "The", " ", "Contract" >>,
      << "the", " ", " ", "contract" >>,
      << "THE", "\n", "CONTRACT", "\n" >>,
      << "The", " ", "law" >>,
      << "TheContract" >> }

\* every run of whitespace becomes one blank
RECURSIVE Collapse(_)
Collapse(text) ==
    IF text = << >> THEN << >>
    ELSE IF Head(text) \in Whitespace
    THEN IF Len(text) > 1 /\ text[2] \in Whitespace
         THEN Collapse(Tail(text))
         ELSE << " " >> \o Collapse(Tail(text))
    ELSE << Head(text) >> \o Collapse(Tail(text))

\* without the blank at either end
Strip(text) ==
    LET from == IF text # << >> /\ Head(text) = " " THEN 2 ELSE 1
        to == IF text # << >> /\ text[Len(text)] = " " THEN Len(text) - 1 ELSE Len(text)
    IN  SubSeq(text, from, to)

\* a normalization that only folds the case
NormalizeCaseOnly(text) == [ i \in 1..Len(text) |-> ToLowerCase(text[i]) ]

\* lowercase, collapse whitespace
Normalize(text) == Strip(Collapse([ i \in 1..Len(text) |-> ToLowerCase(text[i]) ]))

\* the digest of a normalized text; two texts have one digest only if they
\* are the same text
ContentHash(normalized) == normalized

Unique == [ kind |-> "unique", existing_id |-> 0, by |-> "" ]
Duplicate(existing_id, by) == [ kind |-> "duplicate", existing_id |-> existing_id, by |-> by ]

\* checkDuplicate(text, index)
checkDuplicate(text, idx) ==
    LET hits == { e \in idx : e.content_hash = ContentHash(Normalize(text)) }
    IN  IF hits = {} THEN Unique
        ELSE Duplicate((CHOOSE e \in hits : TRUE).document_id, "index")

NotReceived == [ pc |-> "idle", text |-> << >>, outcome |-> Unique, id |-> 0 ]

InitIngestion ==
    /\ corpus = << >> /\ duplicateIndex = {}
    /\ ingests = [ u \in 1..MaxIngests |-> NotReceived ]

\* an upload arrives and its text is extracted
Receive(u, text) ==
    /\ ingests[u].pc = "idle"
    /\ ingests' = [ ingests EXCEPT ![u] = [ @ EXCEPT !.pc = "check", !.text = text ] ]
    /\ UNCHANGED << corpus, duplicateIndex, classifier, weh,
                    serverVars, saVars, ddVars, appVars, listVars, upVars >>

\* the duplicate check of an upload; a duplicate is reported at once, a
\* unique text goes on to classification and insertion
CheckDuplicate(u) ==
    LET outcome == checkDuplicate(ingests[u].text, duplicateIndex)
    IN  /\ ingests[u].pc = "check"
        /\ ingests' = [ ingests EXCEPT ![u] =
                          [ @ EXCEPT !.pc = IF outcome.kind = "unique" THEN "insert" ELSE "done",
                                     !.outcome = outcome ] ]
        /\ UNCHANGED << corpus, duplicateIndex, classifier, weh,
                        serverVars, saVars, ddVars, appVars, listVars, upVars >>

\* an insertion that trusts the earlier check
InsertUnguarded(u) ==
    LET hash == ContentHash(Normalize(ingests[u].text))
        id == Len(corpus) + 1
    IN  /\ ingests[u].pc = "insert"
        /\ corpus' = Append(corpus, [ id |-> id, content_hash |-> hash,
                                      extracted_text |-> ingests[u].text ])
        /\ duplicateIndex' = duplicateIndex
                              \cup { [ content_hash |-> hash, document_id |-> id ] }
        /\ ingests' = [ ingests EXCEPT ![u] = [ @ EXCEPT !.pc = "done", !.id = id ] ]
        /\ UNCHANGED << classifier, weh, serverVars, saVars, ddVars, appVars, listVars, upVars >>

\* the insertion of a document: persist and index update as one unit, guarded
\* by the uniqueness constraint of the storage on the content hash
Insert(u) ==
    LET hash == ContentHash(Normalize(ingests[u].text))
        held == { e \in duplicateIndex : e.content_hash = hash }
        id == Len(corpus) + 1
    IN  /\ ingests[u].pc = "insert"
        /\ IF held # {}
           THEN /\ ingests' = [ ingests EXCEPT ![u] =
                                  [ @ EXCEPT !.pc = "done",
                                             !.outcome = Duplicate((CHOOSE e \in held : TRUE).document_id,
                                                                   "constraint") ] ]
                /\ UNCHANGED << corpus, duplicateIndex >>
           ELSE /\ corpus' = Append(corpus, [ id |-> id, content_hash |-> hash,
                                              extracted_text |-> ingests[u].text ])
                /\ duplicateIndex' = duplicateIndex
                              \cup { [ content_hash |-> hash, document_id |-> id ] }
                /\ ingests' = [ ingests EXCEPT ![u] = [ @ EXCEPT !.pc = "done", !.id = id ] ]
        /\ UNCHANGED << classifier, weh, serverVars, saVars, ddVars, appVars, listVars, upVars >>

\* ------------------------------------------------------------------------
\* FileUpload (part_000 66-339)
\* ------------------------------------------------------------------------
MAX_FILE_SIZE == 10 * 1024 * 1024

\* accept of useDropzone
AcceptedTypes ==
    { "application/pdf", "text/plain", "application/msword",
      "application/vnd.openxmlformats-officedocument.wordprocessingml.document" }

\* the files the user has at hand: two that pass, one too large, one of a
\* type that is not accepted
FilePool ==
    { UFile(File("contract", "pdf"), "application/pdf", 2048),
      UFile(File("notes", "txt"), "text/plain", 1024),
      UFile(File("scan", "pdf"), "application/pdf", MAX_FILE_SIZE + 1),
      UFile(File("photo", "png"), "image/png", 4096) }

\* what the user drops or picks at once
FileLists ==
    UNION { [ 1..n -> FilePool ] : n \in 1..MaxSelected }

\* the errors useDropzone rejects a file with, in its order
Rejections(file) ==
    (IF file.type \in AcceptedTypes THEN <<>> ELSE << "file-invalid-type" >>)
    \o (IF file.size <= MAX_FILE_SIZE THEN <<>> ELSE << "file-too-large" >>)

\* a message that names a file, or none
Message(text, name, more) == [ defined |-> TRUE, text |-> text, name |-> name, more |-> more ]

NotUploading == [ pc |-> "idle", i |-> 0, selectedFiles |-> <<>> ]

InitUpload ==
    /\ uploading = FALSE /\ uploadError = Null /\ fileValidationError = Null
    /\ isDuplicateFile = FALSE /\ selectedFiles = <<>> /\ currentUploadIndex = -1
    /\ up = NotUploading /\ uploadRequests = 0 /\ uploadsSettled = 0 /\ submits = 0

\* onDrop with what useDropzone makes of the dropped files (lines 169-200)
onDrop(files) ==
    LET acceptedFiles == SelectSeq(files, LAMBDA f : Rejections(f) = <<>>)
        rejectedFiles == SelectSeq(files, LAMBDA f : Rejections(f) # <<>>)
        code == Rejections(rejectedFiles[1])[1]
    IN  /\ Len(selectedFiles) + Len(files) <= MaxSelected
        /\ IF Len(rejectedFiles) > 0
           THEN /\ fileValidationError' =
                      IF code = "file-too-large"
                      THEN Message("File is too large. Maximum size is 10MB.", NoName, <<>>)
                      ELSE Message("Invalid file type. Please upload PDF, DOC, DOCX, or TXT files.",
                                   NoName, <<>>)
                /\ UNCHANGED selectedFiles
           ELSE /\ selectedFiles' = selectedFiles \o acceptedFiles
                /\ UNCHANGED fileValidationError
        /\ UNCHANGED << uploading, uploadError, isDuplicateFile, currentUploadIndex, up,
                        uploadRequests, uploadsSettled, submits,
                        serverVars, saVars, ddVars, libVars, appVars, listVars >>

\* handleFileChange (lines 207-213)
handleFileChange(files) ==
    /\ Len(selectedFiles) + Len(files) <= MaxSelected
    /\ selectedFiles' = selectedFiles \o files
    /\ UNCHANGED << uploading, uploadError, fileValidationError, isDuplicateFile,
                    currentUploadIndex, up, uploadRequests, uploadsSettled, submits,
                    serverVars, saVars, ddVars, libVars, appVars, listVars >>

\* removeFile (lines 165-167); its button is rendered while not uploading
removeFile(index) ==
    /\ ~uploading
    /\ index \in 1..Len(selectedFiles)
    /\ selectedFiles' = SubSeq(selectedFiles, 1, index - 1)
                        \o SubSeq(selectedFiles, index + 1, Len(selectedFiles))
    /\ UNCHANGED << uploading, uploadError, fileValidationError, isDuplicateFile,
                    currentUploadIndex, up, uploadRequests, uploadsSettled, submits,
                    serverVars, saVars, ddVars, libVars, appVars, listVars >>

\* a submit button that stays enabled while uploading
SubmitWhileUploading ==
    /\ Len(selectedFiles) > 0
    /\ submits < MaxSubmits
    /\ submits' = submits + 1
    /\ uploading' = TRUE
    /\ uploadError' = Null
    /\ fileValidationError' = Null
    /\ isDuplicateFile' = FALSE
    /\ currentUploadIndex' = 0
    /\ up' = [ pc |-> "request", i |-> 1, selectedFiles |-> selectedFiles ]
    /\ uploadRequests' = uploadRequests + 1
    /\ UNCHANGED << selectedFiles, uploadsSettled,
                    serverVars, saVars, ddVars, libVars, appVars, listVars >>

\* handleSubmit: uploadFiles up to its first await (lines 91-103); the
\* button is disabled without a selection and while uploading
Submit ==
    /\ Len(selectedFiles) > 0 /\ ~uploading
    /\ submits < MaxSubmits
    /\ submits' = submits + 1
    /\ uploading' = TRUE
    /\ uploadError' = Null
    /\ fileValidationError' = Null
    /\ isDuplicateFile' = FALSE
    /\ currentUploadIndex' = 0
    /\ up' = [ pc |-> "request", i |-> 1, selectedFiles |-> selectedFiles ]
    /\ uploadRequests' = uploadRequests + 1
    /\ UNCHANGED << selectedFiles, uploadsSettled,
                    serverVars, saVars, ddVars, libVars, appVars, listVars >>

\* the end of uploadFiles (lines 154-156)
UploadsDone ==
    /\ uploading' = FALSE
    /\ currentUploadIndex' = -1
    /\ selectedFiles' = <<>>
    /\ up' = NotUploading

\* the catch of uploadFiles (lines 107-151)
UploadCaught(err, file) ==
    LET originalResponse == IF err.originalError.defined
                            THEN err.originalError.response ELSE Null
        originalData == IF originalResponse.defined THEN originalResponse.data ELSE Null
        originalCode == IF originalData.defined THEN originalData.error ELSE ""
        responseData == IF originalData.defined THEN originalData ELSE err.data
        duplicateInfo == IF responseData.defined /\ responseData.data.defined
                         THEN << responseData.data.duplicate_filename >> ELSE <<>>
    IN  IF err.status = 409 \/ (originalResponse.defined /\ originalResponse.status = 409)
        THEN /\ isDuplicateFile' = TRUE
             /\ uploadError' = [ defined |-> TRUE,
                                 message |-> Message("has already been uploaded",
                                                     file.name, duplicateInfo),
                                 category |-> "validation",
                                 originalError |-> err ]
             /\ UNCHANGED fileValidationError
        ELSE IF err.code = "FILE_TOO_LARGE" \/ originalCode = "FILE_TOO_LARGE"
        THEN /\ fileValidationError' = Message("is too large", file.name, <<>>)
             /\ UNCHANGED << isDuplicateFile, uploadError >>
        ELSE IF err.code = "TEXT_EXTRACTION_FAILED" \/ originalCode = "TEXT_EXTRACTION_FAILED"
        THEN /\ fileValidationError' =
                   IF file.type = "application/pdf"
                   THEN Message("Could not extract text (corrupted, protected or scanned)",
                                file.name, <<>>)
                   ELSE Message("Could not extract text (corrupted or unsupported)",
                                file.name, <<>>)
             /\ UNCHANGED << isDuplicateFile, uploadError >>
        ELSE /\ uploadError' = err
             /\ UNCHANGED << isDuplicateFile, fileValidationError >>

\* apiUploadFile(file) settles: the rest of one turn of the loop of
\* uploadFiles, up to the next await or to its end (lines 103-156)
UploadReply(reply, setsStatus) ==
    LET file == up.selectedFiles[up.i]
        outcome == uploadDocument(reply, setsStatus)
    IN  /\ up.pc = "request"
        /\ uploadsSettled' = uploadsSettled + 1
        /\ reply.kind = "created" =>
               DocPool[reply.id].filename = file.name /\ ~IsStored(reply.id)
        /\ IF outcome.ok
           THEN /\ server' = Stored(outcome.result)
                /\ handleUploadSuccess(outcome.result,
                                       << Toast("success", "uploaded successfully", file.name) >>)
                /\ IF up.i < Len(up.selectedFiles)
                   THEN /\ currentUploadIndex' = up.i
                        /\ up' = [ up EXCEPT !.i = up.i + 1 ]
                        /\ uploadRequests' = uploadRequests + 1
                        /\ UNCHANGED << uploading, selectedFiles >>
                   ELSE UploadsDone /\ UNCHANGED uploadRequests
                /\ UNCHANGED << uploadError, fileValidationError, isDuplicateFile >>
           ELSE /\ UploadCaught(outcome.error, file)
                /\ UploadsDone
                /\ UNCHANGED << server, uploadRequests, appVars, listState, listMounting >>
        /\ UNCHANGED << serverChanges, submits, saVars, ddVars, libVars, listFetches, listGets, reclassifying,
                        reclassifyRequests, deleting, listClicks >>

\* ------------------------------------------------------------------------
\* DocumentDetail (DocumentDetail.tsx)
\* ------------------------------------------------------------------------
\* no detail route is open
NoRoute == ""
\* the values of the :id parameter of the route
RouteIds == { "1", "2", "2abc", "abc" }

\* parseInt(id, 10): the leading digits, NaN without any
ParseInt(id) ==
    CASE id = "1" -> [ nan |-> FALSE, value |-> 1 ]
      [] id = "2" -> [ nan |-> FALSE, value |-> 2 ]
      [] id = "2abc" -> [ nan |-> FALSE, value |-> 2 ]
      [] OTHER -> [ nan |-> TRUE, value |-> 0 ]

InitDetail ==
    /\ routeId = NoRoute /\ detailDocument = NoDocument /\ detailLoading = TRUE
    /\ detailError = NoError /\ detailFetches = {} /\ detailGets = 0
    /\ detailSettled = {} /\ navigations = 0

\* the effect of [id]: fetchDocument up to its await, or to its end when the
\* id is no number (lines 13-24, 26-30).  errorBefore is the error of the
\* render the effect follows: no line of fetchDocument clears it.
fetchDocument(id, errorBefore) ==
    LET numericId == ParseInt(id)
    IN  /\ detailGets' = detailGets + 1
        /\ IF numericId.nan
           THEN /\ detailError' = "Error loading document: Invalid document ID"
                /\ detailLoading' = FALSE
                /\ detailSettled' = detailSettled \cup { [ n |-> detailGets + 1, ok |-> FALSE ] }
                /\ UNCHANGED detailFetches
           ELSE /\ detailLoading' = TRUE
                /\ detailError' = errorBefore
                /\ detailFetches' = detailFetches
                          \cup { [ n |-> detailGets + 1, numericId |-> numericId.value ] }
                /\ UNCHANGED detailSettled

\* the route /documents/:id is opened: DocumentDetail mounts with the state
\* of useState and its effect runs
OpenDetail(id) ==
    /\ routeId = NoRoute
    /\ routeId' = id
    /\ detailDocument' = NoDocument
    /\ fetchDocument(id, NoError)
    /\ UNCHANGED << navigations, serverVars, saVars, appVars, listVars, upVars, libVars >>

\* the id of the route changes while DocumentDetail stays mounted (the same
\* Route element renders it): the effect runs again, nothing is reset and no
\* earlier call is given up
ChangeRouteId(id) ==
    /\ routeId # NoRoute /\ id # routeId
    /\ navigations < MaxNavigations
    /\ navigations' = navigations + 1
    /\ routeId' = id
    /\ fetchDocument(id, detailError)
    /\ UNCHANGED << detailDocument, serverVars, saVars, appVars, listVars, upVars, libVars >>

\* getDocument(numericId) resolves: setDocument(data), then the finally
\* (lines 24-25, 28-30)
GetDetailReply(f) ==
    /\ f \in detailFetches
    /\ IsStored(f.numericId)
    /\ detailFetches' = detailFetches \ { f }
    /\ detailDocument' = [ id |-> f.numericId ]
    /\ detailLoading' = FALSE
    /\ detailSettled' = detailSettled \cup { [ n |-> f.n, ok |-> TRUE ] }
    /\ UNCHANGED << routeId, detailError, detailGets, navigations,
                    serverVars, saVars, appVars, listVars, upVars, libVars >>

\* getDocument(numericId) rejects (no such document, or no answer): the
\* catch, then the finally (lines 26-30)
GetDetailFails(f) ==
    /\ f \in detailFetches
    /\ detailFetches' = detailFetches \ { f }
    /\ detailError' = "Error loading document"
    /\ detailLoading' = FALSE
    /\ detailSettled' = detailSettled \cup { [ n |-> f.n, ok |-> FALSE ] }
    /\ UNCHANGED << routeId, detailDocument, detailGets, navigations,
                    serverVars, saVars, appVars, listVars, upVars, libVars >>

Init ==
    /\ InitServer /\ InitAnalysis /\ InitApp /\ InitList /\ InitUpload
    /\ InitService /\ InitClassifier /\ InitIngestion /\ InitDetail

\* the client next to a server that stores no document yet
InitAlone == Init /\ server = << >>

Next ==
    \/ Mount
    \/ Refresh
    \/ GetDocumentsFails
    \/ GetDocumentsReply
    \/ \E csv \in CsvPool, draw \in RandomDraws : TargetsReply(csv, draw)
    \/ \E id \in PoolIds, ok \in BOOLEAN : GetDocumentReply(id, ok)
    \/ \E draw \in RandomDraws : FinishLoad(draw)
    \/ ServerChange

Spec == Init /\ [][Next]_vars

\* The home page as the document list sees it
NextList ==
    \/ ListMount
    \/ ListRetry
    \/ \E f \in listFetches : ListDocumentsReply(f)
    \/ \E f \in listFetches : ListDocumentsFails(f)
    \/ ReclassifyAllConfirmed
    \/ \E c \in reclassifying, reclassifyStarted \in BOOLEAN, documentsFound \in 0..MaxDocs :
          ReclassifyReply(c, reclassifyStarted, documentsFound)
    \/ \E c \in reclassifying : ReclassifyFails(c)
    \/ \E c \in reclassifying : ReclassifyTimer(c)
    \/ \E id \in PoolIds : DeleteConfirmed(id)
    \/ \E d \in deleting : DeleteReply(d)
    \/ \E d \in deleting : DeleteFails(d)
    \/ \E id \in PoolIds : UploadSucceeds(DocPool[id])

SpecList == Init /\ [][NextList]_vars

\* A request that was sent is answered or fails, and a timer that was set
\* fires.
ReclassifySettles ==
    \E c \in reclassifying :
        \/ ReclassifyFails(c)
        \/ \E reclassifyStarted \in BOOLEAN, documentsFound \in 0..MaxDocs :
              ReclassifyReply(c, reclassifyStarted, documentsFound)

FairSpecList ==
    /\ SpecList
    /\ WF_vars(ReclassifySettles)
    /\ WF_vars(\E c \in reclassifying : ReclassifyTimer(c))

\* The upload form
NextUpload ==
    \/ \E files \in FileLists : onDrop(files)
    \/ \E files \in FileLists : handleFileChange(files)
    \/ \E index \in 1..MaxSelected : removeFile(index)
    \/ Submit
    \/ \E reply \in UploadReplies, setsStatus \in BOOLEAN : UploadReply(reply, setsStatus)

SpecUpload == Init /\ [][NextUpload]_vars

\* The detail view
NextDetail ==
    \/ \E id \in RouteIds : OpenDetail(id)
    \/ \E id \in RouteIds : ChangeRouteId(id)
    \/ \E f \in detailFetches : GetDetailReply(f)
    \/ \E f \in detailFetches : GetDetailFails(f)

SpecDetail == Init /\ [][NextDetail]_vars

\* withErrorHandling around any operation
NextService ==
    \/ \E retries \in RetriesPool : Call(retries)
    \/ OperationResolves
    \/ \E thrown \in Failures : OperationRejects(thrown)
    \/ DelayElapses

SpecService == Init /\ [][NextService]_vars

\* The classifier of a deployment
NextClassifier ==
    \/ \E registry \in RegistryPool, policy \in Policies : initialize(registry, policy)
    \/ \E chunks \in ChunksOf(classifier.registry) : Classify(chunks)

SpecClassifier == InitAlone /\ [][NextClassifier]_vars

\* The ingestion of uploads that arrive at any time
NextIngestion ==
    \/ \E u \in 1..MaxIngests, text \in TextPool : Receive(u, text)
    \/ \E u \in 1..MaxIngests : CheckDuplicate(u)
    \/ \E u \in 1..MaxIngests : Insert(u)

SpecIngestion == InitAlone /\ [][NextIngestion]_vars

\* the operation settles and the timer of the delay fires
FairSpecService ==
    /\ SpecService
    /\ WF_vars(OperationResolves \/ \E thrown \in Failures : OperationRejects(thrown))
    /\ WF_vars(DelayElapses)

\* the files of the pool that the dropzone would accept
AcceptableFiles == { file \in FilePool : Rejections(file) = <<>> }

\* what uploadDocument rejects with
UploadFailures ==
    { uploadDocument(reply, setsStatus).error :
          reply \in ErrorReplies, setsStatus \in BOOLEAN }

\* The upload form with acceptable files picked one at a time, next to a
\* caller that wraps uploadDocument in withErrorHandling
NextUploadService ==
    \/ \E file \in AcceptableFiles : handleFileChange(<< file >>)
    \/ Submit
    \/ \E reply \in UploadReplies, setsStatus \in BOOLEAN : UploadReply(reply, setsStatus)
    \/ \E retries \in RetriesPool : Call(retries)
    \/ OperationResolves
    \/ \E thrown \in UploadFailures : OperationRejects(thrown)
    \/ DelayElapses

SpecUploadService == InitAlone /\ [][NextUploadService]_vars

\* ------------------------------------------------------------------------
\* Properties of the analytics report
\* ------------------------------------------------------------------------
\* a run of fetchData has finished without an error
Loaded == fd.pc = "idle" /\ loads > 0 /\ error = NoError

DocIdx == 1..Len(documents)
ClassifiedIdx == { i \in DocIdx : HasClassification(documents[i]) }
UnclassifiedIdx == DocIdx \ ClassifiedIdx

\* the row of the document-by-category matrix a document stands for
RowOf(doc) ==
    [ j \in 1..Len(VALID_CATEGORIES) |->
        IF HasClassification(doc) THEN Lookup(doc.category_prediction, VALID_CATEGORIES[j]) ELSE 0 ]
Matrix == [ i \in DocIdx |-> RowOf(documents[i]) ]

\* the first declared category among those of the highest confidence
DeclaredArgmax(prediction) ==
    LET conf(j) == Lookup(prediction, VALID_CATEGORIES[j])
        best == { j \in 1..Len(VALID_CATEGORIES) :
                    \A k \in 1..Len(VALID_CATEGORIES) : conf(j) >= conf(k) }
    IN  VALID_CATEGORIES[CHOOSE j \in best : \A k \in best : j <= k]

HasPositiveConfidence(prediction) ==
    \E j \in 1..Len(VALID_CATEGORIES) : Lookup(prediction, VALID_CATEGORIES[j]) > 0

\* C1 (as claimed): once a report of two or more documents is loaded, the top
\* category recorded for every classified document with a positive confidence
\* is the argmax of its confidences, a tie going to the category declared
\* first in VALID_CATEGORIES, whatever the key order of the mapping.
C1_TopIsDeclaredArgmax ==
    (Loaded /\ Len(documents) >= 2) =>
        \A i \in ClassifiedIdx :
            HasPositiveConfidence(documents[i].category_prediction) =>
                pcaData.categories[i] = DeclaredArgmax(documents[i].category_prediction)

\* C2 (as claimed): a document without a classification is skipped, so the
\* category counts of a loaded report add up to the classified documents.
C2_UnclassifiedSkipped ==
    Loaded =>
        SumSeq([ j \in 1..Len(VALID_CATEGORIES) |-> categoryCounts[VALID_CATEGORIES[j]] ])
            = Cardinality(ClassifiedIdx)

\* C2 (amended): a document without a classification is counted under Other:
\* it adds one to Other's count and nothing to any other count, its size and
\* length go into Other's averages, it brings a zero row labelled Other into
\* the projection, it enters no average confidence, and the report completes
\* without an error.
C2_UnclassifiedCountedAsOther ==
    Loaded =>
        /\ \A c \in ValidSet :
              categoryCounts[c] =
                  Cardinality({ i \in ClassifiedIdx :
                                  StatsTop(documents[i].category_prediction).category = c })
                  + (IF c = "Other" THEN Cardinality(UnclassifiedIdx) ELSE 0)
        /\ LET others == { i \in DocIdx :
                             \/ i \in UnclassifiedIdx
                             \/ /\ i \in ClassifiedIdx
                                /\ StatsTop(documents[i].category_prediction).category = "Other" }
               bytes == SumSeq([ i \in DocIdx |-> IF i \in others THEN documents[i].size ELSE 0 ])
               chars == SumSeq([ i \in DocIdx |->
                                   IF i \in others THEN TextLength(documents[i].content) ELSE 0 ])
           IN  others # {} =>
                 /\ RatEq(categoryAverageSizes["Other"], Rat(bytes, 1024 * Cardinality(others)))
                 /\ RatEq(categoryAverageLengths["Other"], Rat(chars, Cardinality(others)))
        /\ \A c \in ValidSet :
              LET with == { i \in ClassifiedIdx :
                              \E k \in 1..Len(documents[i].category_prediction) :
                                  documents[i].category_prediction[k].category = c }
                  sum == SumSeq([ i \in DocIdx |->
                                    IF i \in with THEN Lookup(documents[i].category_prediction, c)
                                    ELSE 0 ])
              IN  IF with = {} THEN IsZero(categoryAverageScores[c])
                  ELSE RatEq(categoryAverageScores[c], Rat(sum, Cardinality(with)))
        /\ Len(documents) >= 2 =>
              /\ Len(pcaData.points) = Len(documents)
              /\ \A i \in UnclassifiedIdx :
                    /\ pcaData.categories[i] = "Other"
                    /\ RatEq(pcaData.points[i].x, Rat(0 - SumSeq([ k \in DocIdx |-> Matrix[k][1] ]),
                                                      Len(documents)))

\* C2: a report is loaded that holds a document without a classification next
\* to a classified one
C2_Witness ==
    Loaded /\ UnclassifiedIdx # {} /\ ClassifiedIdx # {} /\ categoryCounts["Other"] > 0

\* C3 (as claimed): a category that is the top category of no document reports
\* average confidence 0, average size 0 and average length 0, and no average
\* is NaN.
C3_ZeroCountZeroAverages ==
    Loaded =>
        \A c \in ValidSet :
            /\ ~IsNaN(categoryAverageScores[c])
            /\ ~IsNaN(categoryAverageSizes[c])
            /\ ~IsNaN(categoryAverageLengths[c])
            /\ categoryCounts[c] = 0 =>
                  /\ IsZero(categoryAverageScores[c])
                  /\ IsZero(categoryAverageSizes[c])
                  /\ IsZero(categoryAverageLengths[c])

\* C3 (amended): a category that is the top category of no document reports
\* average size 0 and average length 0; a category that is a key of no loaded
\* classification reports average confidence 0; every category has all three
\* averages and none is NaN or the result of a division by zero.
C3_GuardedAverages ==
    Loaded =>
        /\ DOMAIN categoryAverageScores = ValidSet
        /\ DOMAIN categoryAverageSizes = ValidSet
        /\ DOMAIN categoryAverageLengths = ValidSet
        /\ \A c \in ValidSet :
            /\ IsFinite(categoryAverageScores[c])
            /\ IsFinite(categoryAverageSizes[c])
            /\ IsFinite(categoryAverageLengths[c])
            /\ categoryCounts[c] = 0 =>
                  /\ IsZero(categoryAverageSizes[c])
                  /\ IsZero(categoryAverageLengths[c])
            /\ (\A i \in ClassifiedIdx : \A k \in 1..Len(documents[i].category_prediction) :
                    documents[i].category_prediction[k].category # c)
                  => IsZero(categoryAverageScores[c])

\* C3: a loaded report in which a category tops no document and still has a
\* positive average confidence, next to a category that tops one
C3_Witness ==
    /\ Loaded
    /\ \E c \in ValidSet : categoryCounts[c] = 0 /\ ~IsZero(categoryAverageScores[c])
    /\ \E c \in ValidSet : categoryCounts[c] > 0 /\ ~IsZero(categoryAverageSizes[c])

\* C4: a run of fetchData that finishes on an empty document set sets count
\* 0 and average confidence, size and length 0 for every fixed category, none
\* of them out of a division by zero, and sets no error.
C4_EmptySetAllZero ==
    [][ (fd.pc = "contents" /\ fd'.pc = "idle" /\ fd.data = <<>>) =>
            /\ error' = NoError
            /\ DOMAIN categoryCounts' = ValidSet
            /\ \A c \in ValidSet :
                  /\ categoryCounts'[c] = 0
                  /\ categoryAverageScores'[c] = Zero
                  /\ categoryAverageSizes'[c] = Zero
                  /\ categoryAverageLengths'[c] = Zero ]_vars

\* C4: a report over an empty document set has been computed
C4_Witness ==
    /\ Loaded /\ documents = <<>>
    /\ DOMAIN categoryCounts = ValidSet
    /\ \A c \in ValidSet : categoryCounts[c] = 0

\* the labelled documents of the run that has just parsed targets.csv: those
\* with a name, a classification and a reference label
LabelledIdx ==
    { i \in 1..Len(fd.data) :
        /\ fd.data[i].filename # NoName
        /\ fd.data[i].hasPrediction
        /\ \E t \in 1..Len(targetData) :
              StripExt(targetData[t].filename) = StripExt(fd.data[i].filename) }
LabelAt(i) == LabelOf(fd.data[i], targetData)
PredictedAt(i) == PredictedCategory(fd.data[i].category_prediction)
AccuracyComputed == fd.pc = "contents" /\ fd.csvParsed

\* C7 (as claimed): each category's figure is its precision: total is the
\* number of labelled documents predicted as the category, correct the number
\* of those whose label is the category.
C7_PerCategoryPrecision ==
    AccuracyComputed =>
        \A c \in ValidSet :
            /\ categoryAccuracy[c].total = Cardinality({ i \in LabelledIdx : PredictedAt(i) = c })
            /\ categoryAccuracy[c].correct =
                  Cardinality({ i \in LabelledIdx : PredictedAt(i) = c /\ LabelAt(i) = c })

\* C7 (amended): overall accuracy is correct/total over the labelled documents
\* when there is one; each category's figure is correct/total where total is
\* the number of labelled documents whose reference label is the category and
\* correct the number of those predicted as it; a category with total 0
\* reports 0.
C7_PerLabelAccuracy ==
    AccuracyComputed =>
        /\ LabelledIdx # {} =>
              /\ accuracy # <<>>
              /\ RatEq(accuracy[1],
                       Rat(100 * Cardinality({ i \in LabelledIdx : PredictedAt(i) = LabelAt(i) }),
                           Cardinality(LabelledIdx)))
              /\ totalLabeled = Cardinality(LabelledIdx)
        /\ \A c \in ValidSet :
              LET total == Cardinality({ i \in LabelledIdx : LabelAt(i) = c })
                  correct == Cardinality({ i \in LabelledIdx : LabelAt(i) = c /\ PredictedAt(i) = c })
              IN  /\ categoryAccuracy[c].total = total
                  /\ categoryAccuracy[c].correct = correct
                  /\ IF total = 0 THEN IsZero(categoryAccuracy[c].percentage)
                     ELSE RatEq(categoryAccuracy[c].percentage, Rat(100 * correct, total))

\* C7: accuracy has been computed over labelled documents of which one is
\* predicted as its label and one is not
C7_Witness ==
    /\ AccuracyComputed
    /\ \E i \in LabelledIdx : PredictedAt(i) = LabelAt(i)
    /\ \E i \in LabelledIdx : PredictedAt(i) # LabelAt(i) /\ IsValid(PredictedAt(i))

\* the variance of column j of the matrix, as a fraction
Variance(j) == Covariance(Matrix, j, j)
\* the mean-centred value of row i in column j
MeanCentred(i, j) ==
    Rat(Len(documents) * Matrix[i][j] - SumSeq([ k \in DocIdx |-> Matrix[k][j] ]), Len(documents))
Projected == Loaded /\ Len(documents) >= 2

\* C8 (as claimed): the two axes of the projection are the two columns of the
\* highest variance, so x and y are the mean-centred values of those columns.
C8_AxesOfHighestVariance ==
    Projected =>
        \E a, b \in 1..Len(VALID_CATEGORIES) :
            /\ a # b
            /\ \A k \in 1..Len(VALID_CATEGORIES) :
                  /\ Variance(a).num >= Variance(k).num \/ k = a
                  /\ Variance(b).num >= Variance(k).num \/ k \in { a, b }
            /\ \A i \in DocIdx :
                  /\ RatEq(pcaData.points[i].x, MeanCentred(i, a))
                  /\ RatEq(pcaData.points[i].y, MeanCentred(i, b))

\* C8 (amended): the two axes of the projection are the first two category
\* columns, Technical Documentation and Business Proposal, whatever their
\* variance: x and y are the mean-centred values of those two columns.
C8_AxesAreFirstTwoColumns ==
    Projected =>
        /\ Len(pcaData.points) = Len(documents)
        /\ \A i \in DocIdx :
              /\ RatEq(pcaData.points[i].x, MeanCentred(i, 1))
              /\ RatEq(pcaData.points[i].y, MeanCentred(i, 2))

\* C8: a projection is shown in which a later column has a higher variance
\* than both of the first two, and the first two differ
C8_Witness ==
    /\ Projected
    /\ \E k \in 3..Len(VALID_CATEGORIES) :
          Variance(k).num > Variance(1).num /\ Variance(k).num > Variance(2).num
    /\ \E i \in DocIdx : ~RatEq(pcaData.points[i].x, pcaData.points[i].y)

\* the words of a cloud, whatever their order
WordsOf(cloud) == { cloud[i] : i \in 1..Len(cloud) }
\* the members of a reference label among the loaded documents that have content
MembersWithContent(c) == SelectSeq(InCategory(documents, targetData, c), HasContent)

\* C5 (as claimed): after any finished load, the first one included, every
\* category that has a member document with content, and a word to count in
\* it, shows the frequency count of its members' combined content.
C5_CloudsAreFrequencyCounts ==
    Loaded =>
        \A c \in LabelsPresent(documents, targetData) :
            (MembersWithContent(c) # <<>> /\ WordCounts(c, MembersWithContent(c)) # <<>>) =>
                /\ c \in DOMAIN wordCloudData
                /\ WordsOf(wordCloudData[c]) = WordsOf(WordCounts(c, MembersWithContent(c)))

MountedCalls == { c \in reclassifying : Mounted(c.key) }

\* this step ends the call c of the mounted list / moves it to its timer
CallEnds(c) == c \in MountedCalls /\ Mounted(c.key)' /\ c \notin reclassifying'
TimerSet(c) == [ c EXCEPT !.pc = "timer" ] \in reclassifying'

\* this step starts exactly one fetchDocuments
OneRefresh ==
    /\ listGets' = listGets + 1
    /\ listFetches' = listFetches \cup { [ key |-> refreshKey, n |-> listGets' ] }
    /\ listLoading'
NoRefresh == listGets' = listGets /\ listFetches' = listFetches

\* what C9 says of one step of the list
ReclassifyAllStep ==
    /\ reclassifyRequests' # reclassifyRequests =>
          /\ reclassifyRequests' = reclassifyRequests + 1
          /\ MountedCalls = {} /\ ~isReclassifying /\ isReclassifying'
          /\ MountedCalls' = { [ key |-> refreshKey, pc |-> "request" ] }
          /\ NoRefresh
    /\ \A c \in MountedCalls :
          /\ (CallEnds(c) /\ c.pc = "request" /\ TimerSet(c)) =>
                 /\ isReclassifying' /\ NoRefresh
                 /\ toasts' # toasts
                 /\ toasts'[Len(toasts')].type = "success"
                 /\ toasts'[Len(toasts')].about \in 0..MaxDocs
          /\ (CallEnds(c) /\ c.pc = "request" /\ ~TimerSet(c)) =>
                 ~isReclassifying' /\ NoRefresh
          /\ (CallEnds(c) /\ c.pc = "timer") =>
                 ~isReclassifying' /\ OneRefresh
    /\ (isReclassifying /\ ~isReclassifying' /\ refreshKey' = refreshKey) =>
          \E c \in MountedCalls : CallEnds(c) /\ ~TimerSet(c)

AnsweredBy(reply) == \E setsStatus \in BOOLEAN : UploadReply(reply, setsStatus)

Conflicts == { reply \in ErrorReplies : reply.response.defined /\ reply.response.status = 409 }

\* the existing document's filename, when the body of the response carries it
DuplicateNamed(body) ==
    IF body.defined /\ body.data.defined THEN << body.data.duplicate_filename >> ELSE <<>>

\* what C10 says of one step of the upload form
DuplicateStep ==
    \A reply \in Conflicts :
        (up.pc = "request" /\ AnsweredBy(reply)) =>
            /\ isDuplicateFile'
            /\ uploadError'.defined
            /\ uploadError'.message =
                   Message("has already been uploaded", up.selectedFiles[up.i].name,
                           DuplicateNamed(reply.response.data))
            /\ refreshKey' = refreshKey /\ uploadedDocument' = uploadedDocument
            /\ fileValidationError' = fileValidationError

\* C10 (as claimed): an upload answered with 409 Conflict sets isDuplicateFile
\* and an error that names the uploaded file and, when the response carries
\* it, the existing document's filename; onUploadSuccess is not called for the
\* file; the file-too-large and extraction-failed branches are not taken.
C10_DuplicateOutcome == [][DuplicateStep]_vars

\* ------------------------------------------------------------------------
\* Properties of the failures of text extraction
\* ------------------------------------------------------------------------
\* the code of the body of a response, by its own field or under "detail"
CodeOf(response) ==
    IF ~response.defined \/ response.data.type # "object" \/ ~response.data.defined THEN ""
    ELSE IF Truthy(response.data.detail) /\ response.data.detail.type = "object"
    THEN response.data.detail.error
    ELSE response.data.error

\* HTTP 400 with the code TEXT_EXTRACTION_FAILED
ExtractionFailed(response) ==
    response.defined /\ response.status = 400 /\ CodeOf(response) = "TEXT_EXTRACTION_FAILED"

ExtractionReplies == { reply \in ErrorReplies : ExtractionFailed(reply.response) }

ExtractionFailures ==
    { thrown \in Failures : thrown.defined /\ thrown.isAxiosError
                             /\ ExtractionFailed(thrown.response) }

\* what C11 says of one step
NotRetriedStep ==
    /\ \A reply \in ExtractionReplies :
          (up.pc = "request" /\ AnsweredBy(reply)) =>
              /\ uploadRequests' = uploadRequests
              /\ up' = NotUploading /\ ~uploading'
    /\ \A thrown \in ExtractionFailures :
          OperationRejects(thrown) =>
              /\ weh'.pc = "thrown" /\ weh'.invocations = weh.invocations
              /\ weh'.attempt = 0 => weh'.invocations = 1

\* C11: an upload that fails with HTTP 400 and the code TEXT_EXTRACTION_FAILED
\* is not retried: the step of uploadFiles that takes the failure sends no
\* request and ends the batch, and the step of withErrorHandling that takes it
\* ends the call with no further invocation, whatever retries is (one
\* invocation in all when the first one fails so).
C11_ExtractionNotRetried == [][NotRetriedStep]_vars

\* C11: withErrorHandling was called with retries left and has thrown for an
\* extraction failure after one invocation, and uploadFiles has ended a batch
\* on an extraction failure after one request
C11_Witness ==
    /\ weh.pc = "thrown" /\ weh.retries = MaxRetries /\ weh.invocations = 1
    /\ weh.lastError \in ExtractionFailures
    /\ up = NotUploading /\ uploadRequests = 1 /\ submits = 1
    /\ fileValidationError.defined
    /\ fileValidationError.name = File("contract", "pdf")

\* the code is in the body's own error field
Flat(response) == response.data.error = "TEXT_EXTRACTION_FAILED"

\* the message uploadFiles shows for a file whose text could not be extracted
ExtractionMessage(file) ==
    IF file.type = "application/pdf"
    THEN Message("Could not extract text (corrupted, protected or scanned)", file.name, <<>>)
    ELSE Message("Could not extract text (corrupted or unsupported)", file.name, <<>>)

\* what C12 says of one step, as claimed
SurfacedAsValidationStep ==
    /\ \A thrown \in ExtractionFailures :
          OperationRejects(thrown) => weh'.outcome.category = VALIDATION
    /\ \A reply \in ExtractionReplies :
          (up.pc = "request" /\ AnsweredBy(reply)) =>
              /\ fileValidationError' = ExtractionMessage(up.selectedFiles[up.i])
              /\ uploadError' = uploadError

\* C12 (as claimed): a failure of text extraction (HTTP 400 with the code
\* TEXT_EXTRACTION_FAILED) gets the category VALIDATION from
\* formatErrorMessage, and uploadFiles reports it through the file-validation
\* message and not through the generic error.
C12_SurfacedAsValidation == [][SurfacedAsValidationStep]_vars

\* what C12 says of one step, amended
SurfacedAsFileProcessingStep ==
    /\ \A thrown \in ExtractionFailures :
          OperationRejects(thrown) =>
              /\ weh'.outcome.kind = "AppError"
              /\ weh'.outcome.category = FILE_PROCESSING
              /\ weh'.outcome.code = "TEXT_EXTRACTION_FAILED"
    /\ \A reply \in ExtractionReplies :
          (up.pc = "request" /\ AnsweredBy(reply)) =>
              IF Flat(reply.response)
              THEN /\ fileValidationError' = ExtractionMessage(up.selectedFiles[up.i])
                   /\ uploadError' = uploadError /\ ~uploadError.defined
              ELSE /\ fileValidationError' = fileValidationError
                   /\ uploadError'.defined /\ uploadError'.response = reply.response

\* C12 (amended): formatErrorMessage gives a failure of text extraction the
\* category FILE_PROCESSING and the code TEXT_EXTRACTION_FAILED, wherever the
\* body carries the code; uploadFiles reports it through the file-validation
\* message, leaving the generic error unset, when the code is in the body's
\* own error field, and through the generic error when it is under detail.
C12_SurfacedAsFileProcessing == [][SurfacedAsFileProcessingStep]_vars

\* C12: formatErrorMessage has classified an extraction failure, and
\* uploadFiles has shown the extraction message for notes.txt
C12_Witness ==
    /\ weh.pc = "thrown" /\ weh.lastError \in ExtractionFailures
    /\ weh.outcome.category = FILE_PROCESSING
    /\ up = NotUploading /\ submits = 1
    /\ fileValidationError = ExtractionMessage(UFile(File("notes", "txt"), "text/plain", 1024))
    /\ ~uploadError.defined

\* ------------------------------------------------------------------------
\* Properties of the selection of the upload form
\* ------------------------------------------------------------------------
\* at most 10MB and of an accepted type
ValidFile(file) == file.size <= MAX_FILE_SIZE /\ file.type \in AcceptedTypes

\* C13 (as claimed): every file in selectedFiles, and every file sent in an
\* upload request, is at most 10MB and of an accepted type (PDF, DOC, DOCX,
\* TXT), by whichever path it entered the selection.
C13_OnlyValidFilesSelected ==
    /\ \A i \in 1..Len(selectedFiles) : ValidFile(selectedFiles[i])
    /\ up.pc = "request" => ValidFile(up.selectedFiles[up.i])

\* ------------------------------------------------------------------------
\* Properties of the requests of the analytics report
\* ------------------------------------------------------------------------
\* a step of fetchData
AnalyticsStep == fd' # fd

\* what C14 says of one step
ReadOnlyStep ==
    AnalyticsStep =>
        /\ server' = server
        /\ uploadRequests' = uploadRequests
        /\ reclassifyRequests' = reclassifyRequests
        /\ deleting' = deleting /\ reclassifying' = reclassifying
        /\ up' = up

\* C14: a step of the computation of the analytics report sends only read
\* requests (the list of documents, a document by id, targets.csv), never an
\* upload, a delete or a reclassify request, and leaves the stored documents
\* as they are: they change between loads only by what others do.
C14_AnalyticsReadsOnly == [][ReadOnlyStep]_vars

\* C14: a first load and a refresh have finished over a corpus that nobody
\* else changed, and the contents of a document were fetched by id
C14_Witness ==
    /\ loads = MaxLoads /\ fd.pc = "idle" /\ ~loading /\ error = NoError
    /\ serverChanges = 0 /\ Len(server) = MaxDocs
    /\ documents = server
    /\ documentsWithContent # <<>>

\* ------------------------------------------------------------------------
\* Properties of the classifier
\* ------------------------------------------------------------------------
\* 0 <= q <= 1
InUnit(q) == q.den > 0 /\ 0 <= q.num /\ q.num <= q.den

Words(text) ==
    LET words == SelectSeq(text, LAMBDA w : w \notin Whitespace)
    IN  [ i \in 1..Len(words) |-> ToLowerCase(words[i]) ]

\* the two texts differ at most in whitespace and case
SameContent(a, b) == Words(a) = Words(b)

Done(u) == ingests[u].pc = "done"
Canonical(u) == Done(u) /\ ingests[u].outcome.kind = "unique"
DuplicateOf(u, v) ==
    /\ Done(u) /\ ingests[u].outcome.kind = "duplicate"
    /\ Canonical(v) /\ ingests[u].outcome.existing_id = ingests[v].id

\* C16: of two uploads with the same normalized content, however their
\* duplicate checks and insertions interleave, one is stored as the canonical
\* document and the other is reported as its duplicate; the corpus never
\* holds two documents with one content hash.
C16_OneCanonicalPerContent ==
    /\ \A i, j \in 1..Len(corpus) :
          corpus[i].content_hash = corpus[j].content_hash => i = j
    /\ \A u, v \in 1..MaxIngests :
          (u # v /\ Done(u) /\ Done(v) /\ SameContent(ingests[u].text, ingests[v].text)) =>
              \/ Canonical(u) /\ ~Canonical(v)
              \/ Canonical(v) /\ ~Canonical(u)
              \/ \E w \in 1..MaxIngests : DuplicateOf(u, w) /\ DuplicateOf(v, w)

\* C16: two uploads of the same content both passed the duplicate check
\* before either was inserted, and the second insertion was turned into a
\* duplicate of the first
C16_Witness ==
    \E u, v \in 1..MaxIngests :
        /\ ingests[u].text # ingests[v].text
        /\ SameContent(ingests[u].text, ingests[v].text)
        /\ Canonical(u) /\ DuplicateOf(v, u)
        /\ ingests[v].outcome.by = "constraint"
        /\ Len(corpus) = 1

\* C17: an upload is reported as a duplicate exactly when an upload whose
\* text has the same words, whitespace and case apart, has been stored: texts
\* that differ only in whitespace or case give duplicate for the later one,
\* texts that differ in one word give unique for both.
C17_DuplicateIffSameNormalizedText ==
    \A u \in 1..MaxIngests :
        Done(u) =>
            /\ ingests[u].outcome.kind = "duplicate" <=>
                   \E v \in 1..MaxIngests :
                       /\ v # u /\ Canonical(v)
                       /\ SameContent(ingests[u].text, ingests[v].text)
            /\ \A v \in 1..MaxIngests :
                   (v # u /\ Done(v) /\ ~SameContent(ingests[u].text, ingests[v].text)) =>
                       ~DuplicateOf(u, v) /\ ~DuplicateOf(v, u)

\* C17: "The Contract" was stored, then "THE\nCONTRACT\n" was reported as
\* its duplicate by the index, then "The law" was stored as unique
C17_Witness ==
    /\ ingests[1].text = << "The", " ", "Contract" >> /\ Canonical(1) /\ ingests[1].id = 1
    /\ ingests[2].text = << "THE", "\n", "CONTRACT", "\n" >> /\ DuplicateOf(2, 1)
    /\ ingests[2].outcome.by = "index"
    /\ ingests[3].text = << "The", " ", "law" >> /\ Canonical(3) /\ ingests[3].id = 2

\* ------------------------------------------------------------------------
\* Properties of the order of the uploads
\* ------------------------------------------------------------------------
\* the upload requests that wait for their answer
InFlight == uploadRequests - uploadsSettled

\* the step tells the user that file was uploaded
Succeeded(file) ==
    /\ uploadedDocument'.filename = file.name
    /\ Len(toasts') = Len(toasts) + 2
    /\ toasts'[Len(toasts')] = Toast("success", "uploaded successfully", file.name)

\* what C18 says of one step
SequentialStep ==
    /\ uploadRequests' # uploadRequests =>
          /\ uploadRequests' = uploadRequests + 1
          /\ up'.pc = "request"
          /\ \/ InFlight = 0 /\ up.pc = "idle" /\ up'.i = 1 /\ up'.selectedFiles = selectedFiles
             \/ /\ InFlight = 1 /\ up.pc = "request"
                /\ up'.i = up.i + 1 /\ up'.selectedFiles = up.selectedFiles
                /\ uploadsSettled' = uploadsSettled + 1
                /\ Succeeded(up.selectedFiles[up.i])
    /\ \A reply \in ErrorReplies :
          (up.pc = "request" /\ AnsweredBy(reply)) =>
              /\ uploadRequests' = uploadRequests
              /\ up' = NotUploading /\ selectedFiles' = << >> /\ ~uploading'

\* C18: uploadFiles sends the files one at a time in the order of the
\* selection: a request is sent for the first file at the submit and for file
\* i+1 in the step in which the request for file i succeeds; at most one
\* upload request waits for its answer; the first failure ends the batch and
\* no request is sent for its later files.
C18_SequentialUploads ==
    /\ [](InFlight \in { 0, 1 } /\ (InFlight = 1 <=> up.pc = "request"))
    /\ [][SequentialStep]_vars

\* C18: the first file of a batch of two was uploaded and the request for
\* the second one waits for its answer
C18_Witness ==
    /\ submits = 1 /\ up.pc = "request" /\ up.i = 2 /\ Len(up.selectedFiles) = 2
    /\ up.selectedFiles[1] # up.selectedFiles[2]
    /\ uploadRequests = 2 /\ uploadsSettled = 1
    /\ uploadedDocument.filename = up.selectedFiles[1].name

\* ------------------------------------------------------------------------
\* Properties of withErrorHandling
\* ------------------------------------------------------------------------
\* a network error (no response) or an HTTP 502, 503 or 504
NetworkOrGateway(thrown) ==
    /\ thrown.defined /\ thrown.isAxiosError
    /\ ~thrown.response.defined \/ thrown.response.status \in { 502, 503, 504 }

Running == weh.pc \in { "operation", "delay" }

\* what C19 says of one step
RetryStep ==
    /\ (weh.pc = "operation" /\ weh'.pc = "returned") =>
           weh'.invocations = weh.invocations
    /\ (weh.pc = "operation" /\ weh'.pc = "delay") =>
           NetworkOrGateway(weh'.lastError) /\ weh.attempt < weh.retries
    /\ (weh.pc = "delay" /\ weh'.pc = "operation") =>
           weh'.invocations = weh.invocations + 1 /\ weh'.lastError = weh.lastError
    /\ \A thrown \in Failures :
           (OperationRejects(thrown) /\ ~NetworkOrGateway(thrown)) => weh'.pc = "thrown"
    /\ (weh.pc # "thrown" /\ weh'.pc = "thrown") =>
           /\ weh'.outcome.kind = "AppError"
           /\ weh'.outcome.category \in ErrorCategory
           /\ weh'.outcome.originalError = weh'.lastError

\* C19 (as claimed): withErrorHandling(operation, {retries}) invokes the
\* operation at most retries + 1 times and always ends; it returns at the
\* first invocation that succeeds; it invokes again only after a network
\* error or an HTTP 502, 503 or 504 and only while attempts remain; any other
\* failure ends it; when it fails it throws the AppError built from the last
\* error.
C19_BoundedRetries ==
    /\ [](weh.invocations <= weh.retries + 1)
    /\ [][RetryStep]_vars
    /\ (Running ~> ~Running)

\* ------------------------------------------------------------------------
\* Properties of the projection
\* ------------------------------------------------------------------------
\* the x and the y coordinates of the points shown, in their order
XsShown == [ i \in 1..Len(pcaData.points) |-> pcaData.points[i].x ]
YsShown == [ i \in 1..Len(pcaData.points) |-> pcaData.points[i].y ]
\* p - q
Less(p, q) == Plus(p, Rat(-q.num, q.den))

\* C20: performPCA on a matrix of n >= 2 rows gives n two-dimensional points
\* in the order of the rows (two points lie as far apart on an axis as their
\* rows do in the column of that axis), and the x coordinates and the y
\* coordinates each sum to zero over the n points.
C20_PointsInRowOrderSumToZero ==
    Projected =>
        /\ Len(pcaData.points) = Len(Matrix)
        /\ \A i \in DocIdx : DOMAIN pcaData.points[i] = { "x", "y" }
        /\ \A i, k \in DocIdx :
              /\ RatEq(Less(pcaData.points[i].x, pcaData.points[k].x),
                       Rat(Matrix[i][1] - Matrix[k][1], 1))
              /\ RatEq(Less(pcaData.points[i].y, pcaData.points[k].y),
                       Rat(Matrix[i][2] - Matrix[k][2], 1))
        /\ IsZero(SumRat(XsShown))
        /\ IsZero(SumRat(YsShown))

\* C20: a projection of at least two rows is shown whose points differ on
\* both axes, so that the order of the rows shows, and whose rows have a
\* column mean other than zero to subtract
C20_Witness ==
    /\ Projected
    /\ \E i, k \in DocIdx :
          /\ pcaData.points[i].x.num > 0 /\ pcaData.points[k].x.num < 0
          /\ pcaData.points[i].y.num # 0 /\ pcaData.points[k].y.num # 0
          /\ Matrix[k][1] > 0 /\ Matrix[i][2] > 0

\* ------------------------------------------------------------------------
\* Properties of the deletions of the document list
\* ------------------------------------------------------------------------
\* the ids of the documents of a list
IdsOf(list) == { list[i].id : i \in 1..Len(list) }

\* The list runs next to a server that loses a document only through a
\* deleteDocument of this client that succeeded: a document that was listed and
\* is stored no more has been deleted with success.
\* What C21 says of one step: a deleted document that is not displayed comes
\* to be displayed only by the answer to a fetch.
DeletedStaysGoneStep ==
    \A id \in PoolIds :
        (~IsStored(id) /\ id \notin IdsOf(listDocuments) /\ id \in IdsOf(listDocuments')) =>
            \E f \in listFetches : ListDocumentsReply(f)

\* C21: once deleteDocument(id) has succeeded the displayed list does not
\* contain document id again unless a fetch from the server returns it, also
\* when several deletions are in flight together and end in any order.
C21_DeletedStaysGone == [][DeletedStaysGoneStep]_vars

\* ------------------------------------------------------------------------
\* Properties of the files of the selection
\* ------------------------------------------------------------------------
\* What C22 says of one step: files leave the selection only when the user
\* removes one, or when the batch that ends takes its own files with it, each
\* of them sent or left unsent after a file that failed.
FilesLeaveStep ==
    Len(selectedFiles') < Len(selectedFiles) =>
        \/ \E index \in 1..Len(selectedFiles) : removeFile(index)
        \/ up.pc = "request" /\ selectedFiles = up.selectedFiles

\* C22: every file added to the selection is sent in an upload request,
\* removed by the user, or left unsent because an earlier file of its batch
\* failed; a file added while a batch is uploading does not leave the
\* selection without being uploaded.
C22_NoFileLeavesUnsent == [][FilesLeaveStep]_vars

\* ------------------------------------------------------------------------
\* Properties of the reclassification across remounts of the list
\* ------------------------------------------------------------------------
\* the calls of handleReclassifyAll, of any instance of the list, whose
\* request reported started and whose timer has yet to fire
AwaitingRefresh == { c \in reclassifying : c.pc = "timer" }

\* What C23 says of one step: no reclassify-all request is sent while a
\* started reclassification waits for its refresh.
NoSecondRequestStep ==
    reclassifyRequests' # reclassifyRequests => AwaitingRefresh = {}

\* C23: between a reclassify-all request that reported started and the
\* refresh of the list 5 seconds later the client sends no second
\* reclassify-all request, whatever else happens in between, a successful
\* upload that remounts the list included.
C23_NoSecondReclassifyRequest == [][NoSecondRequestStep]_vars

\* ------------------------------------------------------------------------
\* Properties of the detail view
\* ------------------------------------------------------------------------
\* the run of the effect for the current route id has fetched its document
CurrentFetchSucceeded ==
    routeId # NoRoute /\ [ n |-> detailGets, ok |-> TRUE ] \in detailSettled

\* C24: whenever loading has finished and the fetch for the current route id
\* succeeded, the detail view shows the document of that id and no error,
\* after any changes of the route id, failed loads before, and answers in any
\* order.
C24_DetailShowsCurrentDocument ==
    (~detailLoading /\ CurrentFetchSucceeded) =>
        /\ detailDocument.id = ParseInt(routeId).value
        /\ detailError = NoError

\* ------------------------------------------------------------------------
\* Properties of formatErrorMessage
\* ------------------------------------------------------------------------
\* formatErrorMessage(err) returns an AppError of one of the six categories
Formats(err) ==
    LET formatted == formatErrorMessage(err)
    IN  formatted.kind = "AppError" /\ formatted.category \in ErrorCategory

\* What C25 says of one step: whatever the operation rejects with, the catch
\* of withErrorHandling gets an AppError from formatErrorMessage.
FormatsStep == \A thrown \in Failures : OperationRejects(thrown) => Formats(thrown)

\* C25: formatErrorMessage is total: for an axios error without a response,
\* an axios error whose body is null, empty, a string or an object with or
\* without a detail field, a plain Error and any other value it returns an
\* AppError whose category is one of the six ErrorCategory values, and never
\* throws.
C25_FormatErrorMessageTotal == [][FormatsStep]_vars

\* ------------------------------------------------------------------------
\* Properties of the scatter data
\* ------------------------------------------------------------------------
\* the points the scatter should hold for the documents just loaded
PointsExpected == IF Len(documents) >= 2 THEN Len(documents) ELSE 0

\* C26: after every load that ended without an error, the first or a
\* refresh, the points, the categories and the filenames of the scatter data
\* have one length, the number of documents just loaded when that is at least
\* 2 and 0 otherwise.
C26_ScatterDescribesLoadedCorpus ==
    Loaded =>
        /\ Len(pcaData.points) = PointsExpected
        /\ Len(pcaData.categories) = PointsExpected
        /\ Len(pcaData.filenames) = PointsExpected

\* ------------------------------------------------------------------------
\* Properties of the three derivations of the top category
\* ------------------------------------------------------------------------
\* the category a loaded document is counted under in the statistics, the
\* category predicted for it in the accuracy pass, the category of its row
\* in the document list
CountedAs(doc) == StatsTop(doc.category_prediction).category
PredictedAs(doc) == PredictedCategory(doc.category_prediction)
ListedAs(doc) == ListTop(doc).category

\* C27: for every document with a classification the category counted in the
\* statistics, the category predicted for the accuracy and the category shown
\* in the document list are the same, whatever its category_prediction (keys
\* outside the fixed categories and confidences that are all zero included).
C27_TopCategoriesAgree ==
    Loaded =>
        \A i \in ClassifiedIdx :
            /\ CountedAs(documents[i]) = PredictedAs(documents[i])
            /\ PredictedAs(documents[i]) = ListedAs(documents[i])

====
